---- MODULE Spec2Model ----
(***************************************************************************)
(* Fragment cache and single-flight coordinator of go-esi.                 *)
(*                                                                         *)
(* The cache (fragmentCache: entries map, lru list, inFlight table) is     *)
(* modelled from the second copy of cache.go held in src/Makefile, lines   *)
(* 185-437; the include fetcher from src/esi/include.go.                    *)
(*                                                                         *)
(* Time is counted in whole seconds.  A fragment body is an atom standing  *)
(* for a byte string that holds no ESI construct.                          *)
(***************************************************************************)
EXTENDS Integers, Sequences, FiniteSets, TLC

\* ---------------------------------------------------------------- bounds
NumKeys == 2          \* fragment keys (URLs) in play
NumProcs == 2         \* concurrent goroutines calling FetchContent
MaxTime == 2          \* the clock stops advancing here
\* maxCacheEntries is 1000 in the source (src/Makefile:200); it is scaled
\* down so that eviction happens within NumKeys keys.
maxCacheEntries == 1
MaxDirs == 2           \* directives in one Cache-Control value
MaxTags == 2           \* tag openings in one document

\* ------------------------------------------------------------- constants
defaultTTL == 300

Keys == 1..NumKeys
Procs == 1..NumProcs
RecIds == 1..NumProcs

Nil == "nil"
Bodies == {"a", "b"}           \* bodies the origin serves with status 200
ErrBody == "E"                 \* body of an error response (status >= 400)
AltBody == "F"                 \* body the alt URL serves with status 200

\* ------------------------------------------------ Cache-Control, parseTTL
\* A header value is the sequence of its comma-separated directives, each
\* already trimmed: name is the directive up to and including "=", arg the
\* characters after it.
Dir(n, a) == [arg |-> a, name |-> n]
MaxAge(a) == Dir("max-age=", a)
NoCache == Dir("no-cache", <<>>)
NoStore == Dir("no-store", <<>>)
Public == Dir("public", <<>>)
MustRevalidate == Dir("must-revalidate", <<>>)

Digits == <<"0", "1", "2", "3", "4", "5", "6", "7", "8", "9">>
IsDigit(ch) == \E i \in 1..10 : Digits[i] = ch
DigitVal(ch) == (CHOOSE i \in 1..10 : Digits[i] = ch) - 1

RECURSIVE DigitsVal(_, _)
DigitsVal(s, acc) ==
  IF s = <<>> THEN acc ELSE DigitsVal(Tail(s), acc * 10 + DigitVal(Head(s)))

\* strconv.Atoi: an optional sign followed by one or more decimal digits.
Atoi(s) ==
  LET signed == s # <<>> /\ Head(s) \in {"+", "-"}
      body == IF signed THEN Tail(s) ELSE s
      ok == body # <<>> /\ \A i \in 1..Len(body) : IsDigit(body[i])
  IN  IF ~ok THEN [ok |-> FALSE, n |-> 0]
      ELSE [ok |-> TRUE,
            n |-> IF signed /\ Head(s) = "-" THEN 0 - DigitsVal(body, 0)
                  ELSE DigitsVal(body, 0)]

\* The test of the older cache.go (src/Makefile:133), which refuses 0.
MaxAgePositive(n) == n > 0

\* No test of the sign at all.
MaxAgeAny(n) == TRUE

MaxAgeAccepted(n) == n >= 0

RECURSIVE ScanDirectives(_, _)
ScanDirectives(cc, i) ==
  IF i > Len(cc) THEN defaultTTL
  ELSE LET d == cc[i]
           a == Atoi(d.arg)
       IN  IF d.name = "max-age=" /\ a.ok /\ MaxAgeAccepted(a.n) THEN a.n
           ELSE IF d.name \in {"no-cache", "no-store"} /\ d.arg = <<>> THEN 0
           ELSE ScanDirectives(cc, i + 1)

\* A response is [status, cc]; status 0 stands for a nil *http.Response.
NoResp == [cc |-> <<>>, status |-> 0]

parseTTL(resp) ==
  IF resp.status = 0 THEN defaultTTL
  ELSE IF resp.cc = <<>> THEN defaultTTL
  ELSE ScanDirectives(resp.cc, 1)

\* ------------------------------------------------------------------ state
VARIABLES
  now,        \* time.Now(), in seconds
  entries,    \* fragmentCache.entries: key -> [data, expiresAt]
  lru,        \* fragmentCache.lru: keys, front first
  inFlight,   \* fragmentCache.inFlight: key -> id of its inFlightRequest
  recs,       \* the inFlightRequest objects: id -> [wg, result, err, ...]
  pc,         \* where each goroutine stands in FetchContent / GetOrFetch
  ckey,       \* the cacheKey of its call (0: not in a call)
  req,        \* the inFlightRequest it holds (0: none)
  fres,       \* what its fetchFn returned: [data, resp, err]
  out,        \* what GetOrFetch hands back to FetchContent, at pc "ret"
  stale,      \* history: a fetch of its key has completed since it began
  first,      \* history: the bytes first stored in each key's live entry
  lastGet,    \* history: what the latest direct Get returned
  probe       \* history: a function called alone, its arguments and result

cacheVars == <<now, entries, lru>>
callVars == <<inFlight, recs, pc, ckey, req, fres, out, stale, first>>
vars == <<now, entries, lru, inFlight, recs, pc, ckey, req, fres, out, stale,
          first, lastGet, probe>>

\* ------------------------------------------------------- list operations
RemoveKey(l, k) == SelectSeq(l, LAMBDA x : x # k)
MoveToFront(l, k) == <<k>> \o RemoveKey(l, k)
PushFront(l, k) == <<k>> \o l
DropKey(es, k) == [x \in (DOMAIN es) \ {k} |-> es[x]]

\* ---------------------------------------------------------------- Get
Expired(e, t) == t > e.expiresAt
GetHit(k) == k \in DOMAIN entries /\ ~Expired(entries[k], now)
GetData(k) == IF GetHit(k) THEN entries[k].data ELSE Nil
\* A hit that leaves the list as it is.
GetLruNoMove(k) == lru

GetLru(k) == IF GetHit(k) THEN MoveToFront(lru, k) ELSE lru

\* ---------------------------------------------------------------- Put
\* An eviction that takes the oldest key off the list and leaves it in the map.
EvictOneKeepsKey(c) ==
  [lru |-> SubSeq(c.lru, 1, Len(c.lru) - 1), entries |-> c.entries]

EvictOne(c) ==
  LET oldest == c.lru[Len(c.lru)]
  IN  [lru |-> SubSeq(c.lru, 1, Len(c.lru) - 1),
       entries |-> DropKey(c.entries, oldest)]

\* The eviction loop and Put with the capacity as a parameter; the program
\* runs them with maxCacheEntries.
RECURSIVE EvictTo(_, _)
EvictTo(c, room) == IF Len(c.lru) > room THEN EvictTo(EvictOne(c), room) ELSE c

Evict(c) == EvictTo(c, maxCacheEntries)

PutWithRoom(k, data, resp, room) ==
  LET ttl == parseTTL(resp)
      e == [data |-> data, expiresAt |-> now + ttl]
  IN  IF ttl = 0 THEN [lru |-> lru, entries |-> entries]
      ELSE IF k \in DOMAIN entries
      THEN [lru |-> MoveToFront(lru, k),
            entries |-> [entries EXCEPT ![k] = e]]
      ELSE EvictTo([lru |-> PushFront(lru, k), entries |-> (k :> e) @@ entries],
                   room)

PutCache(k, data, resp) == PutWithRoom(k, data, resp, maxCacheEntries)

\* ------------------------------------------------------------- responses
CCHeaders ==
  { <<>>, <<MaxAge(<<"1">>)>>, <<MaxAge(<<"0">>)>>, <<NoStore>>,
    <<MaxAge(<<"1">>), NoStore>> }

OriginHeaders == { <<MaxAge(<<"1">>)>>, <<NoStore>>, <<MaxAge(<<"1">>), NoStore>> }

\* -------------------------------------------------- the cache used alone
Tick == /\ now < MaxTime
        /\ now' = now + 1
        /\ UNCHANGED <<entries, lru, lastGet, probe, callVars>>

CachePut(k, data, resp) ==
  LET c == PutCache(k, data, resp)
  IN  /\ entries' = c.entries
      /\ lru' = c.lru
      /\ UNCHANGED <<now, lastGet, probe, callVars>>

\* lastGet also keeps whether the key had an entry and when it expired.
CacheGet(k) ==
  /\ lastGet' = [key |-> k, data |-> GetData(k), ok |-> GetHit(k), at |-> now,
                 found |-> k \in DOMAIN entries,
                 stored |-> IF k \in DOMAIN entries THEN entries[k].data ELSE Nil,
                 exp |-> IF k \in DOMAIN entries THEN entries[k].expiresAt ELSE 0]
  /\ lru' = GetLru(k)
  /\ UNCHANGED <<now, entries, probe, callVars>>

\* ------------------------------------------------- include.go: fetchFn
\* What one HTTP GET comes back with: a transport error (kind "neterr", nil
\* response) or a response with a status, a Cache-Control value and a body.
NetErr == [body |-> Nil, cc |-> <<>>, kind |-> "neterr", status |-> 0]
Http(st, cc, b) == [body |-> b, cc |-> cc, kind |-> "resp", status |-> st]

PrimaryOutcomes ==
  {NetErr} \cup {Http(200, cc, b) : cc \in OriginHeaders, b \in Bodies}
           \cup {Http(500, <<MaxAge(<<"1">>)>>, ErrBody)}
AltOutcomes ==
  {NetErr, Http(200, <<MaxAge(<<"1">>)>>, AltBody), Http(404, <<>>, ErrBody)}

\* A test that takes only a transport error for a failure.
RequestFailedOnError(o) == o.kind = "neterr"

RequestFailed(o) == o.kind = "neterr" \/ o.status >= 400
ErrOf(o) == IF o.kind = "neterr" THEN "err" ELSE Nil

FetchOk(o) == [data |-> o.body, resp |-> [cc |-> o.cc, status |-> o.status],
               err |-> Nil]
FetchNone(o) == [data |-> Nil, err |-> ErrOf(o), resp |-> NoResp]
NoFetch == [data |-> Nil, err |-> Nil, resp |-> NoResp]

\* A closure that never asks for the alt URL.
FetchFnPrimaryOnly(p, a, t) ==
  IF p.kind = "neterr" THEN FetchNone(p) ELSE FetchOk(p)

\* The closure passed to GetOrFetch by FetchContent, given what the primary
\* request (p) and, when it is made, the alt request (a) come back with.
FetchFn(p, a, t) ==
  IF RequestFailed(p) /\ t.alt
  THEN IF ~t.silent /\ RequestFailed(a) THEN FetchNone(a)
       ELSE IF a.kind = "neterr" THEN FetchNone(a)
       ELSE FetchOk(a)
  ELSE IF p.kind = "neterr" THEN FetchNone(p)
  ELSE FetchOk(p)

\* ---------------------------------------------------------- GetOrFetch
NewRec == [done |-> 0, err |-> Nil, result |-> Nil, stored |-> FALSE, wg |-> 0]
NoOut == [err |-> Nil, how |-> "none", note |-> FALSE, result |-> Nil,
          status |-> 0]

\* FetchContent's return value from GetOrFetch's (result, err).
Content(result, err) == IF err # Nil THEN Nil ELSE result

\* A LoadOrStore that always stores.
LoadedNever(tbl, k) == FALSE

\* sync.Map.LoadOrStore: loaded reports whether the key was present.
Loaded(tbl, k) == k \in DOMAIN tbl

\* An inFlightRequest nobody can reach any more is garbage; a fresh
\* &inFlightRequest{} takes the lowest free id.
Reachable(r, rq, tbl) ==
  \/ \E c \in Procs : rq[c] = r
  \/ \E k \in DOMAIN tbl : tbl[k] = r
Collect(rs, rq, tbl) ==
  [r \in RecIds |-> IF Reachable(r, rq, tbl) THEN rs[r] ELSE NewRec]
FreshRec == CHOOSE r \in RecIds :
              /\ ~Reachable(r, req, inFlight)
              /\ \A q \in RecIds : q < r => Reachable(q, req, inFlight)

\* An error return that runs the deferred Delete without the Done.
AfterFetchNoDefer(r) ==
  IF r.err # Nil THEN "del"
  ELSE IF r.resp.status # 0 /\ r.resp.status = 200 THEN "put"
  ELSE "wgdone"

\* Where the winner goes once fetchFn has returned r: to Put on a 200
\* without error, otherwise straight to the deferred Done and Delete.
AfterFetch(r) ==
  IF r.err # Nil THEN "wgdone"
  ELSE IF r.resp.status # 0 /\ r.resp.status = 200 THEN "put"
  ELSE "wgdone"

FetchFailed(r) == r.err # Nil \/ r.resp.status # 200

\* The history of a key is kept only while the key has an entry.
Forget(h, es) == [k \in Keys |-> IF k \in DOMAIN es THEN h[k] ELSE Nil]

\* FetchContent entered: GetOrFetch's fast path, c.Get(url).  On a hit
\* note records that the bytes are those first stored in the entry.
Begin(c, k) ==
  /\ pc[c] = "idle"
  /\ lru' = GetLru(k)
  /\ IF GetHit(k)
     THEN /\ out' = [out EXCEPT ![c] =
                       [how |-> "hit", result |-> GetData(k), err |-> Nil,
                        status |-> 0, note |-> (GetData(k) = first[k])]]
          /\ pc' = [pc EXCEPT ![c] = "ret"]
          /\ UNCHANGED ckey
     ELSE /\ pc' = [pc EXCEPT ![c] = "los"]
          /\ ckey' = [ckey EXCEPT ![c] = k]
          /\ UNCHANGED out
  /\ UNCHANGED <<now, entries, inFlight, recs, req, fres, stale, first, lastGet, probe>>

\* c.inFlight.LoadOrStore(url, &inFlightRequest{})
LoadOrStore(c) ==
  /\ pc[c] = "los"
  /\ IF Loaded(inFlight, ckey[c])
     THEN /\ req' = [req EXCEPT ![c] = inFlight[ckey[c]]]
          /\ pc' = [pc EXCEPT ![c] = "wait"]
          /\ UNCHANGED inFlight
     ELSE /\ inFlight' = (ckey[c] :> FreshRec) @@ inFlight
          /\ req' = [req EXCEPT ![c] = FreshRec]
          /\ pc' = [pc EXCEPT ![c] = "add"]
  /\ UNCHANGED <<cacheVars, recs, ckey, fres, out, stale, first, lastGet, probe>>

\* The loser: req.wg.Wait(), then return req.result, req.err.  note records
\* that the winner had stored its result by then.
Wait(c) ==
  LET r == recs[req[c]]
  IN  /\ pc[c] = "wait"
      /\ r.wg = 0
      /\ out' = [out EXCEPT ![c] =
                   [how |-> "waited", result |-> r.result, err |-> r.err,
                    status |-> 0, note |-> r.stored]]
      /\ pc' = [pc EXCEPT ![c] = "ret"]
      /\ ckey' = [ckey EXCEPT ![c] = 0]
      /\ req' = [req EXCEPT ![c] = 0]
      /\ stale' = [stale EXCEPT ![c] = FALSE]
      /\ recs' = Collect(recs, req', inFlight)
      /\ UNCHANGED <<cacheVars, inFlight, fres, first, lastGet, probe>>

\* The winner: req.wg.Add(1)
WgAdd(c) ==
  /\ pc[c] = "add"
  /\ recs' = [recs EXCEPT ![req[c]].wg = @ + 1]
  /\ pc' = [pc EXCEPT ![c] = "fetch"]
  /\ UNCHANGED <<cacheVars, inFlight, ckey, req, fres, out, stale, first,
                 lastGet, probe>>

\* The winner: data, resp, err := fetchFn(); req.result = data; req.err = err.
\* t holds the include's alt and onerror attributes, which only fetchFn reads.
Fetch(c, t, p, a) ==
  LET r == FetchFn(p, a, t)
      k == ckey[c]
  IN  /\ pc[c] = "fetch"
      /\ fres' = [fres EXCEPT ![c] = r]
      /\ recs' = [recs EXCEPT ![req[c]].result = r.data,
                              ![req[c]].err = r.err,
                              ![req[c]].stored = TRUE]
      /\ pc' = [pc EXCEPT ![c] = AfterFetch(r)]
      /\ stale' = [d \in Procs |->
                     IF d # c /\ ckey[d] = k
                     THEN TRUE ELSE stale[d]]
      /\ UNCHANGED <<cacheVars, inFlight, ckey, req, out, first, lastGet, probe>>

\* The winner: c.Put(url, data, resp).  Nothing reads resp's header after
\* this, so it is dropped from the local.
Put(c) ==
  LET k == ckey[c]
      cache == PutCache(k, fres[c].data, fres[c].resp)
  IN  /\ pc[c] = "put"
      /\ entries' = cache.entries
      /\ lru' = cache.lru
      /\ first' = Forget([first EXCEPT ![k] =
                            IF parseTTL(fres[c].resp) = 0 \/ GetHit(k) THEN @
                            ELSE fres[c].data],
                         cache.entries)
      /\ fres' = [fres EXCEPT ![c].resp.cc = <<>>]
      /\ pc' = [pc EXCEPT ![c] = "wgdone"]
      /\ UNCHANGED <<now, inFlight, recs, ckey, req, out, stale, lastGet, probe>>

\* The winner's deferred function, first half: req.wg.Done()
WgDone(c) ==
  /\ pc[c] = "wgdone"
  /\ recs' = [recs EXCEPT ![req[c]].wg = @ - 1, ![req[c]].done = @ + 1]
  /\ pc' = [pc EXCEPT ![c] = "del"]
  /\ UNCHANGED <<cacheVars, inFlight, ckey, req, fres, out, stale, first,
                 lastGet, probe>>

\* The winner's deferred function, second half: c.inFlight.Delete(url);
\* GetOrFetch returns (nil, err) or (data, nil).
Delete(c) ==
  /\ pc[c] = "del"
  /\ inFlight' = DropKey(inFlight, ckey[c])
  /\ out' = [out EXCEPT ![c] =
               [how |-> "fetched",
                result |-> IF fres[c].err # Nil THEN Nil ELSE fres[c].data,
                err |-> fres[c].err, status |-> fres[c].resp.status,
                note |-> FALSE]]
  /\ pc' = [pc EXCEPT ![c] = "ret"]
  /\ ckey' = [ckey EXCEPT ![c] = 0]
  /\ req' = [req EXCEPT ![c] = 0]
  /\ fres' = [fres EXCEPT ![c] = NoFetch]
  /\ stale' = [stale EXCEPT ![c] = FALSE]
  /\ recs' = Collect(recs, req', inFlight')
  /\ UNCHANGED <<cacheVars, first, lastGet, probe>>

\* FetchContent returns Content(result, err) to the splicer.
Return(c) ==
  /\ pc[c] = "ret"
  /\ pc' = [pc EXCEPT ![c] = "idle"]
  /\ out' = [out EXCEPT ![c] = NoOut]
  /\ UNCHANGED <<cacheVars, inFlight, recs, ckey, req, fres, stale, first,
                 lastGet, probe>>

\* The cache and the goroutines before any call.
Idle ==
  /\ now = 0
  /\ entries = << >>
  /\ lru = << >>
  /\ inFlight = << >>
  /\ recs = [r \in RecIds |-> NewRec]
  /\ pc = [c \in Procs |-> "idle"]
  /\ ckey = [c \in Procs |-> 0]
  /\ req = [c \in Procs |-> 0]
  /\ fres = [c \in Procs |-> NoFetch]
  /\ out = [c \in Procs |-> NoOut]
  /\ stale = [c \in Procs |-> FALSE]
  /\ first = [k \in Keys |-> Nil]
  /\ lastGet = [key |-> 0, data |-> Nil, ok |-> FALSE, at |-> 0,
                found |-> FALSE, stored |-> Nil, exp |-> 0]

NoProbe == [fn |-> "none"]

Init == Idle /\ probe = NoProbe

Tags == [alt : BOOLEAN, silent : BOOLEAN]

\* One step of goroutine c inside a call, with the include attributes and
\* the origin's answers drawn from T, P and A.
Step(c, T, P, A) ==
  \/ LoadOrStore(c)
  \/ Wait(c)
  \/ WgAdd(c)
  \/ \E t \in T, p \in P, a \in A : Fetch(c, t, p, a)
  \/ Put(c)
  \/ WgDone(c)
  \/ Delete(c)
  \/ Return(c)

Next ==
  \/ Tick
  \/ \E c \in Procs, k \in Keys : Begin(c, k)
  \/ \E c \in Procs : Step(c, Tags, PrimaryOutcomes, AltOutcomes)

Spec == Init /\ [][Next]_vars

\* The single-flight protocol alone: the clock stands still, includes have
\* no alt, and the origin answers with a transport error, a cacheable 200
\* or a 500.
FlightTags == {[alt |-> FALSE, silent |-> FALSE]}
FlightPrimary == {NetErr, Http(200, <<MaxAge(<<"1">>)>>, "a"),
                  Http(500, <<>>, ErrBody)}
FlightAlt == {NetErr}

\* In-flight records of different keys share nothing but the table, so the
\* callers contend for two keys, and for one where progress is checked.
FlightKeys == {1, 2}
LatchKeys == {1}

FlightStep(c) == Step(c, FlightTags, FlightPrimary, FlightAlt)

FlightNext ==
  \/ \E c \in Procs, k \in FlightKeys : Begin(c, k)
  \/ \E c \in Procs : FlightStep(c)

FlightSpec == Init /\ [][FlightNext]_vars

LatchNext ==
  \/ \E c \in Procs, k \in LatchKeys : Begin(c, k)
  \/ \E c \in Procs : FlightStep(c)

\* Goroutines are scheduled fairly and every origin request returns.
FairFlightSpec ==
  Init /\ [][LatchNext]_vars /\ \A c \in Procs : WF_vars(FlightStep(c))

CacheNext ==
  \/ Tick
  \/ \E k \in Keys, d \in Bodies, cc \in CCHeaders :
       CachePut(k, d, [cc |-> cc, status |-> 200])
  \/ \E k \in Keys, d \in Bodies : CachePut(k, d, NoResp)
  \/ \E k \in Keys : CacheGet(k)

CacheSpec == Init /\ [][CacheNext]_vars

\* ------------------------------------------------- parseTTL called alone
\* The decimal text of n, as a test writes it into "max-age=N".
RECURSIVE Decimal(_)
Decimal(n) ==
  IF n < 10 THEN <<Digits[n + 1]>>
  ELSE Decimal(n \div 10) \o <<Digits[(n % 10) + 1]>>

AgeValues == {0, 5, 60}
BadAgeArgs == { <<>>, <<"-", "5">>, <<"a", "b", "c">> }
Directives ==
  {MaxAge(Decimal(n)) : n \in AgeValues} \cup {MaxAge(a) : a \in BadAgeArgs}
    \cup {NoCache, NoStore, Public, MustRevalidate}
Headers == UNION {[1..n -> Directives] : n \in 0..MaxDirs}
Responses == {NoResp} \cup {[cc |-> h, status |-> 200] : h \in Headers}

TtlInit ==
  /\ Idle
  /\ probe \in {[fn |-> "parseTTL", resp |-> r, ttl |-> 0, called |-> FALSE] :
                  r \in Responses}

CallParseTTL ==
  /\ probe.fn = "parseTTL" /\ ~probe.called
  /\ probe' = [probe EXCEPT !.ttl = parseTTL(probe.resp), !.called = TRUE]
  /\ UNCHANGED <<cacheVars, callVars, lastGet>>

TtlSpec == TtlInit /\ [][CallParseTTL]_vars

\* ---------------------------------------------- config.go: Configure
\* globalConfig is kept in probe while the cache runs under a configuration.
ZeroConfig == [CacheTTLJitter |-> 0, MinimumCacheTTL |-> 0]
globalConfig == probe.config
ConfigValues == [MinimumCacheTTL : {0, 2}, CacheTTLJitter : {0, 1}]

Configure(cfg) ==
  /\ probe.fn = "Configure"
  /\ probe' = [probe EXCEPT !.config =
                 [cfg EXCEPT !.MinimumCacheTTL =
                               IF cfg.MinimumCacheTTL = 0 THEN defaultTTL ELSE @]]
  /\ UNCHANGED <<cacheVars, callVars, lastGet>>

ConfigInit == Idle /\ probe = [fn |-> "Configure", config |-> ZeroConfig]

ConfigNext ==
  \/ \E cfg \in ConfigValues : Configure(cfg)
  \/ CacheNext

ConfigSpec == ConfigInit /\ [][ConfigNext]_vars

\* ------------------------------------------- the cache's eviction order
\* The cache with room for one entry more than in the other specifications
\* and one key more than that, so that the evicted entry is one of several.
\* probe keeps the keys in order of their latest insertion or hit (recency),
\* the key hit by a Get that was the latest operation (hit), and for the
\* latest Put the key it evicted (victim), the key that was least recently
\* used before it (oldest) and the key hit just before it (hitThen).
LruRoom == maxCacheEntries + 1
LruKeys == 1..(LruRoom + 1)
LruHeaders == { <<>>, <<MaxAge(<<"1">>)>>, <<NoStore>> }
NoLru == [fn |-> "lru", hit |-> 0, hitThen |-> 0, oldest |-> 0,
          recency |-> <<>>, victim |-> 0]

LruPut(k, data, resp) ==
  LET c == PutWithRoom(k, data, resp, LruRoom)
      gone == (DOMAIN entries) \ (DOMAIN c.entries)
      used == IF parseTTL(resp) = 0 THEN probe.recency
              ELSE <<k>> \o RemoveKey(probe.recency, k)
  IN  /\ entries' = c.entries
      /\ lru' = c.lru
      /\ probe' = IF gone = {}
                  THEN [NoLru EXCEPT !.recency = used]
                  ELSE LET v == CHOOSE x \in gone : TRUE
                       IN  [NoLru EXCEPT
                              !.recency = RemoveKey(used, v),
                              !.victim = v,
                              !.oldest = probe.recency[Len(probe.recency)],
                              !.hitThen = probe.hit]
      /\ UNCHANGED <<now, lastGet, callVars>>

LruGet(k) ==
  /\ lru' = GetLru(k)
  /\ probe' = IF GetHit(k)
              THEN [NoLru EXCEPT !.recency = <<k>> \o RemoveKey(probe.recency, k),
                                 !.hit = k]
              ELSE [NoLru EXCEPT !.recency = probe.recency]
  /\ UNCHANGED <<now, entries, lastGet, callVars>>

LruInit == Idle /\ probe = NoLru

LruNext ==
  \/ Tick
  \/ \E k \in LruKeys, cc \in LruHeaders :
       LruPut(k, AltBody, [cc |-> cc, status |-> 200])
  \/ \E k \in LruKeys : LruGet(k)

LruSpec == LruInit /\ [][LruNext]_vars

\* ------------------------------------------------------ esi.go: Parse
\* A buffer is the sequence of its bytes, one character each; offsets count
\* from 0 as in the program, and Slice(b, lo, hi) is b[lo:hi].
Slice(b, lo, hi) == SubSeq(b, lo + 1, hi)
From(b, lo) == SubSeq(b, lo + 1, Len(b))
Min(a, b) == IF a <= b THEN a ELSE b
Max(a, b) == IF a >= b THEN a ELSE b

\* regexp.FindIndex for a pattern that is a literal: the offset of the first
\* occurrence of pat in s, -1 for nil.
Occurs(s, pat, i) == i + Len(pat) <= Len(s) /\ Slice(s, i, i + Len(pat)) = pat

\* Whether pat occurs anywhere in B.
Holds(B, pat) == \E i \in 0..Len(B) : Occurs(B, pat, i)

\* A search that stops one byte short of the pattern's end.
FindLitLoose(s, pat) ==
  LET short == SubSeq(pat, 1, Len(pat) - 1)
      at(i) == i + Len(short) <= Len(s) /\ SubSeq(s, i + 1, i + Len(short)) = short
  IN  IF \E i \in 0..Len(s) : at(i)
      THEN CHOOSE i \in 0..Len(s) : at(i) /\ \A j \in 0..(i - 1) : ~at(j)
      ELSE 0 - 1

FindLit(s, pat) ==
  IF \E i \in 0..Len(s) : Occurs(s, pat, i)
  THEN CHOOSE i \in 0..Len(s) :
         Occurs(s, pat, i) /\ \A j \in 0..(i - 1) : ~Occurs(s, pat, j)
  ELSE 0 - 1

EsiOpen == <<"<", "e", "s", "i", ":">>
EscOpen == <<"<", "!", "-", "-", "e", "s", "i">>
EscClose == <<"-", "-", ">">>
closeInclude == <<"/", ">">>
CloseRemove == <<"<", "/", "e", "s", "i", ":", "r", "e", "m", "o", "v", "e", ">">>
Lower == {"a", "b", "c", "d", "e", "f", "g", "h", "i", "j", "k", "l", "m", "n", "o", "p", "q", "r", "s", "t", "u", "v", "w", "x", "y", "z"}

IncludeName == <<"i", "n", "c", "l", "u", "d", "e">>
CommentName == <<"c", "o", "m", "m", "e", "n", "t">>
RemoveName == <<"r", "e", "m", "o", "v", "e">>
ChooseName == <<"c", "h", "o", "o", "s", "e">>
VarsName == <<"v", "a", "r", "s">>
TryName == <<"t", "r", "y">>

\* tagname: the run of lower-case letters the bytes start with, or the
\* opening of an inline escape.
RECURSIVE LowerRun(_)
LowerRun(b) ==
  IF b # <<>> /\ Head(b) \in Lower THEN <<Head(b)>> \o LowerRun(Tail(b))
  ELSE <<>>
tagname(b) == IF Occurs(b, EscOpen, 0) THEN EscOpen ELSE LowerRun(b)

\* findTagName: the kind of handler, "nil" when there is none.
findTagName(b) ==
  LET name == tagname(b)
  IN  IF name = CommentName THEN "comment"
      ELSE IF name = ChooseName THEN "choose"
      ELSE IF name = EscOpen THEN "escape"
      ELSE IF name = IncludeName THEN "include"
      ELSE IF name = RemoveName THEN "remove"
      ELSE IF name = TryName THEN "nil"
      ELSE IF name = VarsName THEN "vars"
      ELSE "nil"

\* collectIncludes: the loop from pointer on, acc the sites found so far.
RECURSIVE CollectFrom(_, _, _)
CollectFrom(b, pointer, acc) ==
  IF pointer >= Len(b) THEN acc
  ELSE
    LET next == From(b, pointer)
        tagIdx0 == FindLit(next, EsiOpen)
        tagIdx1 == tagIdx0 + Len(EsiOpen)
        closeIdx0 == FindLit(From(next, tagIdx1), closeInclude)
        closeIdx1 == closeIdx0 + Len(closeInclude)
        found == /\ findTagName(From(next, tagIdx1)) = "include"
                 /\ closeIdx0 # 0 - 1
    IN  IF tagIdx0 = 0 - 1 THEN acc
        ELSE CollectFrom(b, pointer + tagIdx1 + 1,
               IF found
               THEN Append(acc, [position |-> pointer + tagIdx0,
                                 length |-> (tagIdx1 - tagIdx0) + closeIdx1])
               ELSE acc)

collectIncludes(b) == CollectFrom(b, 0, <<>>)

\* srcAttribute, altAttribute, onErrorAttribute: key="?(.+?)"?( |/>) matches
\* when the key is followed by at least one byte and then a space or "/>".
SrcKey == <<"s", "r", "c", "=">>
AltKey == <<"a", "l", "t", "=">>
HasAttr(b, key) ==
  \E i \in 0..Len(b) :
    /\ Occurs(b, key, i)
    /\ \E j \in (i + Len(key) + 1)..Len(b) :
         Occurs(b, <<" ">>, j) \/ Occurs(b, closeInclude, j)

\* includeTag.loadAttributes fails exactly when there is no src.
loadAttributesFails(b) == ~HasAttr(b, SrcKey)

\* includeTag.FetchContent up to the call of GetOrFetch: whether the tag
\* bytes get that far, or nil is returned before any fetch.
ReachesFetch(tagBytes) ==
  LET closeIdx0 == FindLit(tagBytes, closeInclude)
      length == closeIdx0 + Len(closeInclude)
  IN  /\ closeIdx0 # 0 - 1
      /\ ~loadAttributesFails(Slice(tagBytes, 8, length))

\* The tag bytes a fetch task of fetchIncludesParallel cuts out of b.
TagBytes(b, inc) ==
  Slice(b, inc.position, Min(inc.position + inc.length, Len(b)))

\* A replacement loop that runs from the first result to the last.
RECURSIVE SpliceForward(_, _, _)
SpliceForward(b, results, i) ==
  IF i = 0 THEN b
  ELSE LET res == results[Len(results) - i + 1]
           endPos == Min(res.position + res.length, Len(b))
       IN  SpliceForward(Slice(b, 0, res.position) \o res.content
                           \o From(b, endPos),
                         results, i - 1)

\* fetchIncludesParallel, the replacement loop: results i down to 1.
RECURSIVE SpliceFrom(_, _, _)
SpliceFrom(b, results, i) ==
  IF i = 0 THEN b
  ELSE LET res == results[i]
           endPos == Min(res.position + res.length, Len(b))
       IN  SpliceFrom(Slice(b, 0, res.position) \o res.content \o From(b, endPos),
                      results, i - 1)

\* Tag.Process of the tags other than include: what replaces the tag (res)
\* and how many of the bytes b it covers (p); b starts at the tag's name, or
\* right after the opening of an inline escape.  A tag without its close is
\* left as it is and ends the pass (halt).
ProcessTo(b, close, inner) ==
  LET c == FindLit(b, close)
  IN  IF c = 0 - 1 THEN [res |-> <<>>, p |-> 0, halt |-> TRUE]
      ELSE [res |-> IF inner THEN Slice(b, 0, c) ELSE <<>>,
            p |-> c + Len(close), halt |-> FALSE]
ProcessTag(t, b) ==
  CASE t = "comment" -> ProcessTo(b, closeInclude, FALSE)
    [] t = "remove" -> ProcessTo(b, CloseRemove, FALSE)
    [] t = "escape" -> ProcessTo(b, EscClose, TRUE)

\* processNonIncludes: the loop from pointer on.  A call of Process on the
\* nil Tag that findTagName returned is a nil dereference: the run panics.
RECURSIVE NonIncludesFrom(_, _)
NonIncludesFrom(b, pointer) ==
  IF pointer >= Len(b) THEN [b |-> b, panic |-> FALSE]
  ELSE
    LET next == From(b, pointer)
        esiIdx == FindLit(next, EsiOpen)
        escIdx == FindLit(next, EscOpen)
        escapeTag == escIdx # 0 - 1 /\ (esiIdx = 0 - 1 \/ escIdx < esiIdx)
        tagIdx0 == IF escapeTag THEN escIdx ELSE esiIdx
        tagIdx1 == IF escapeTag THEN escIdx ELSE esiIdx + Len(EsiOpen)
        t == findTagName(From(next, tagIdx1))
        esiPointer == IF escapeTag THEN tagIdx1 + 7 ELSE tagIdx1
        r == ProcessTag(t, From(next, esiPointer))
    IN  IF tagIdx0 = 0 - 1 THEN [b |-> b, panic |-> FALSE]
        ELSE IF t = "include"
        THEN NonIncludesFrom(b, pointer + tagIdx0 + tagIdx1 + 1)
        ELSE IF t = "nil" THEN [b |-> b, panic |-> TRUE]
        ELSE IF r.halt THEN [b |-> b, panic |-> FALSE]
        ELSE NonIncludesFrom(
               Slice(b, 0, pointer) \o Slice(next, 0, tagIdx0) \o r.res
                 \o From(next, esiPointer + r.p),
               pointer + Len(r.res) + tagIdx0)

processNonIncludes(b) == NonIncludesFrom(b, 0)

\* ------------------------------------------------- Parse called alone
\* Documents: up to MaxTags tags, each of them possibly preceded by a byte
\* of text, and possibly a last byte of text; the text bytes differ.
IncludeU == <<"<", "e", "s", "i", ":", "i", "n", "c", "l", "u", "d", "e", " ", "s", "r", "c", "=", "u", "/", ">">>
IncludeNoSrc == <<"<", "e", "s", "i", ":", "i", "n", "c", "l", "u", "d", "e", " ", "a", "l", "t", "=", "v", "/", ">">>
UnknownTag == <<"<", "e", "s", "i", ":", "f", "o", "o", "/", ">">>
TryTag == <<"<", "e", "s", "i", ":", "t", "r", "y", ">">>
RemoveTag == <<"<", "e", "s", "i", ":", "r", "e", "m", "o", "v", "e", ">", "x", "<", "/", "e", "s", "i", ":", "r", "e", "m", "o", "v", "e", ">">>
EscapedInclude == EscOpen \o IncludeU \o EscClose
EscapedRemove == EscOpen \o RemoveTag \o EscClose
DocTags ==
  {IncludeU, IncludeNoSrc, UnknownTag, TryTag, RemoveTag, EscapedInclude,
   EscapedRemove}

Text(i, present) == IF present THEN <<Digits[i + 1]>> ELSE <<>>
RECURSIVE Doc(_, _, _)
Doc(tags, texts, i) ==
  IF i > Len(tags) THEN Text(i, texts[i])
  ELSE Text(i, texts[i]) \o tags[i] \o Doc(tags, texts, i + 1)
TagDocs ==
  UNION {{Doc(tags, texts, 1) :
            tags \in [1..n -> DocTags], texts \in [1..(n + 1) -> BOOLEAN]} :
         n \in 0..MaxTags}

\* Documents of plain text and of pieces of markup that are no opening by
\* themselves.
PlainPieces == {<<"a">>, <<"<">>, <<"<", "e", "s", "i">>, <<"e", "s", "i", ":">>, <<"/", ">">>, <<"<", "!", "-", "-">>, <<"-", "-", ">">>}
RECURSIVE Concat(_)
Concat(ps) == IF ps = <<>> THEN <<>> ELSE Head(ps) \o Concat(Tail(ps))
PlainDocs ==
  UNION {{Concat(ps) : ps \in [1..n -> PlainPieces]} : n \in 0..(MaxTags + 1)}

Docs == TagDocs \cup PlainDocs

\* What FetchContent returns for an include it fetches: nothing, or a body
\* shorter than, as long as, or longer than the include's markup.
Body(n) == [i \in 1..n |-> "r"]
Fragments == {Body(0), Body(1), Body(Len(IncludeU)), Body(Len(IncludeU) + 2)}

\* probe holds the run of one Parse: the input, the buffer b, the include
\* plan, the result slots of the fetch tasks, which tasks have written
\* their slot (written), which of them called GetOrFetch (fetched), the
\* buffer as the include phase left it (spliced), and the stage.
ParseStart(input) ==
  [fn |-> "Parse", input |-> input, b |-> input, stage |-> "collect",
   includes |-> <<>>, results |-> <<>>, written |-> {}, fetched |-> {},
   spliced |-> <<>>]

\* parseParallel, step 1: includes := collectIncludes(b)
ParseCollect ==
  /\ probe.fn = "Parse" /\ probe.stage = "collect"
  /\ LET incs == collectIncludes(probe.b)
     IN  probe' = [probe EXCEPT
                     !.includes = incs,
                     !.results = [i \in 1..Len(incs) |->
                                   [content |-> <<>>, position |-> 0,
                                    length |-> 0]],
                     !.stage = IF Len(incs) > 0 THEN "fetch" ELSE "rest",
                     !.spliced = probe.b]
  /\ UNCHANGED <<cacheVars, callVars, lastGet>>

\* fetchIncludesParallel: the task of include i runs FetchContent, which
\* comes back with r when it fetches, and writes results[i].
ParseFetch(i, r) ==
  /\ probe.fn = "Parse" /\ probe.stage = "fetch"
  /\ i \in 1..Len(probe.includes) /\ i \notin probe.written
  /\ LET inc == probe.includes[i]
         fetches == ReachesFetch(TagBytes(probe.b, inc))
     IN  probe' = [probe EXCEPT
                     !.results[i] = [content |-> IF fetches THEN r ELSE <<>>,
                                     position |-> inc.position,
                                     length |-> inc.length],
                     !.written = @ \cup {i},
                     !.fetched = IF fetches THEN @ \cup {i} ELSE @]
  /\ UNCHANGED <<cacheVars, callVars, lastGet>>

\* fetchIncludesParallel after wg.Wait(): the replacement loop.
ParseSplice ==
  /\ probe.fn = "Parse" /\ probe.stage = "fetch"
  /\ probe.written = 1..Len(probe.includes)
  /\ LET b == SpliceFrom(probe.b, probe.results, Len(probe.results))
     IN  probe' = [probe EXCEPT !.b = b, !.spliced = b, !.stage = "rest"]
  /\ UNCHANGED <<cacheVars, callVars, lastGet>>

\* parseParallel, step 3: b = processNonIncludes(b, req); return b
ParseRest ==
  /\ probe.fn = "Parse" /\ probe.stage = "rest"
  /\ LET r == processNonIncludes(probe.b)
     IN  probe' = [probe EXCEPT !.b = r.b,
                                !.stage = IF r.panic THEN "panic" ELSE "done"]
  /\ UNCHANGED <<cacheVars, callVars, lastGet>>

ParseInit == Idle /\ probe \in {ParseStart(d) : d \in Docs}

ParseNext ==
  \/ ParseCollect
  \/ \E i \in 1..MaxTags, r \in Fragments : ParseFetch(i, r)
  \/ ParseSplice
  \/ ParseRest

ParseSpec == ParseInit /\ [][ParseNext]_vars

\* ------------------------------------- Parse of includes without a close
\* Documents in which an include opening may have no "/>" of its own: a
\* lead of no, one or several bytes of text, up to MaxTags tags, and
\* possibly a last byte of text.
IncludeOpen == <<"<", "e", "s", "i", ":", "i", "n", "c", "l", "u", "d", "e">>
SiteTags == {IncludeU, IncludeOpen, RemoveTag}
Leads == {<<>>, <<"a">>, <<"a", "a", "a", "a", "a", "a", "a">>}
SiteDocs ==
  UNION {{lead \o Concat(tags) \o last :
            lead \in Leads, tags \in [1..n -> SiteTags],
            last \in {<<>>, <<"z">>}} :
         n \in 0..MaxTags}

SiteInit == Idle /\ probe \in {ParseStart(d) : d \in SiteDocs}

SiteSpec == SiteInit /\ [][ParseNext]_vars

\* ------------------------------------- include.go: FetchContent alone
\* One include between two bytes of text, fetched by one caller: src alone,
\* src and alt, and src, alt and onerror=continue.
IncludeAlt == <<"<", "e", "s", "i", ":", "i", "n", "c", "l", "u", "d", "e", " ", "s", "r", "c", "=", "u", " ", "a", "l", "t", "=", "v", "/", ">">>
OnErrorContinue == <<"o", "n", "e", "r", "r", "o", "r", "=", "c", "o", "n", "t", "i", "n", "u", "e">>
IncludeSilent == <<"<", "e", "s", "i", ":", "i", "n", "c", "l", "u", "d", "e", " ", "s", "r", "c", "=", "u", " ", "a", "l", "t", "=", "v", " ">> \o OnErrorContinue \o closeInclude
FetchTags == {IncludeU, IncludeAlt, IncludeSilent}
FetchDoc(tag) == <<"x">> \o tag \o <<"y">>

\* loadAttributes: i.alt is set when altAttribute matches, i.silent when
\* the value of onerror is continue.
Attrs(tagBytes) ==
  LET b == Slice(tagBytes, 8, FindLit(tagBytes, closeInclude) + Len(closeInclude))
  IN  [alt |-> HasAttr(b, AltKey),
       silent |-> \/ Holds(b, OnErrorContinue \o <<" ">>)
                  \/ Holds(b, OnErrorContinue \o closeInclude)]

\* sanitizeURL(i.src, req.URL): the documents' one src, u, is key 1.
SrcUrl == 1

\* A body is one byte of plain text, which the recursive Parse leaves as
\* it is; nil is no bytes.
BodyBytes(d) == IF d = Nil THEN <<>> ELSE <<d>>

\* fetchIncludesParallel for the one include of the document b: the site
\* collectIncludes found, replaced by content.
SpliceOne(b, content) ==
  LET inc == collectIncludes(b)[1]
  IN  SpliceFrom(b, <<[content |-> content, position |-> inc.position,
                       length |-> inc.length]>>, 1)

\* probe holds the run of one FetchContent: the document and its include,
\* the stage, what the primary request (p) and the alt request (a) came
\* back with, the URLs requested in order (asked), the error GetOrFetch
\* returned (err), and the document after the replacement (spliced).
FetchStart(tag) ==
  [fn |-> "FetchContent", tag |-> tag, stage |-> "get", p |-> NetErr,
   a |-> NetErr, asked |-> <<>>, err |-> Nil, spliced |-> <<>>]

\* Parse of a new document: FetchContent is entered.
FetchEnter(tag) ==
  /\ probe.fn = "FetchContent" /\ probe.stage \in {"idle", "done"}
  /\ ReachesFetch(TagBytes(FetchDoc(tag), collectIncludes(FetchDoc(tag))[1]))
  /\ probe' = FetchStart(tag)
  /\ UNCHANGED <<cacheVars, callVars, lastGet>>

\* GetOrFetch's fast path, c.Get(url): a hit is spliced without a request.
FetchGet ==
  /\ probe.fn = "FetchContent" /\ probe.stage = "get"
  /\ lru' = GetLru(SrcUrl)
  /\ probe' = IF GetHit(SrcUrl)
              THEN [probe EXCEPT
                      !.stage = "done",
                      !.spliced = SpliceOne(FetchDoc(probe.tag),
                                            BodyBytes(GetData(SrcUrl)))]
              ELSE [probe EXCEPT !.stage = "primary"]
  /\ UNCHANGED <<now, entries, callVars, lastGet>>

\* fetchFn: response, fetchErr := httpClient.Do(rq) on the src URL, and the
\* test that decides whether the alt URL is tried.
FetchPrimary(p) ==
  /\ probe.fn = "FetchContent" /\ probe.stage = "primary"
  /\ probe' = [probe EXCEPT
                 !.p = p, !.asked = <<"src">>,
                 !.stage = IF RequestFailed(p) /\ Attrs(probe.tag).alt
                           THEN "alt" ELSE "fetched"]
  /\ UNCHANGED <<cacheVars, callVars, lastGet>>

\* fetchFn: response, fetchErr = httpClient.Do(rq) on the alt URL.
FetchAlt(a) ==
  /\ probe.fn = "FetchContent" /\ probe.stage = "alt"
  /\ probe' = [probe EXCEPT !.a = a, !.asked = @ \o <<"alt">>,
                            !.stage = "fetched"]
  /\ UNCHANGED <<cacheVars, callVars, lastGet>>

\* fetchFn returns; GetOrFetch stores a 200 and returns data and err;
\* FetchContent returns the bytes and the site is replaced by them.
FetchEnd ==
  /\ probe.fn = "FetchContent" /\ probe.stage = "fetched"
  /\ LET r == FetchFn(probe.p, probe.a, Attrs(probe.tag))
         c == IF AfterFetch(r) = "put" THEN PutCache(SrcUrl, r.data, r.resp)
              ELSE [entries |-> entries, lru |-> lru]
     IN  /\ entries' = c.entries
         /\ lru' = c.lru
         /\ probe' = [probe EXCEPT
                        !.stage = "done", !.err = r.err,
                        !.spliced = SpliceOne(FetchDoc(probe.tag),
                                              BodyBytes(Content(r.data, r.err)))]
  /\ UNCHANGED <<now, callVars, lastGet>>

FetchInit == Idle /\ probe = [FetchStart(IncludeU) EXCEPT !.stage = "idle"]

FetchNext ==
  \/ Tick
  \/ \E tag \in FetchTags : FetchEnter(tag)
  \/ FetchGet
  \/ \E p \in PrimaryOutcomes : FetchPrimary(p)
  \/ \E a \in AltOutcomes : FetchAlt(a)
  \/ FetchEnd

FetchSpec == FetchInit /\ [][FetchNext]_vars

\* ------------------------------- include.go: the fragment requests
\* A URL is its scheme, its host (with the port, as url.URL.Host holds it)
\* and its path; a reference without scheme and host is relative.  NoUrl is
\* the empty string.
MaxDepth == 2
Url(sc, h, pa) == [host |-> h, path |-> pa, scheme |-> sc]
NoUrl == Url("", "", "")
Schemes == {"http", "https"}
Hosts == {"a", "a:81", "b"}
Paths == {"/x", "/y"}
AbsUrls == {Url(sc, h, pa) : sc \in Schemes, h \in Hosts, pa \in Paths}
Refs == AbsUrls \cup {Url("", "", pa) : pa \in Paths}

\* url.URL.ResolveReference for an absolute reference and for a reference
\* that is an absolute path.
ResolveReference(base, ref) ==
  IF ref.scheme # "" THEN ref ELSE Url(base.scheme, base.host, ref.path)

\* sanitizeURL(u, reqURL) with a request URL that is not nil.
sanitizeURL(u, reqURL) == ResolveReference(reqURL, u)

\* Headers: each name's value, "" when the header is absent.
headersSafe == {"Accept", "Accept-Language"}
headersUnsafe == {"Cookie", "Authorization"}
HeaderNames == headersSafe \cup headersUnsafe \cup {"X-Backend"}
NoHeaders == [n \in HeaderNames |-> ""]

\* addHeaders(headers, req, rq) into the headers of rq.
addHeaders(headers, from, rq) ==
  [n \in HeaderNames |-> IF n \in headers /\ from[n] # "" THEN from[n] ELSE rq[n]]

\* A test that compares the hosts alone.
SameHost(u, v) == u.host = v.host

\* rq.URL.Scheme == req.URL.Scheme && rq.URL.Host == req.URL.Host
SameOrigin(u, v) == u.scheme = v.scheme /\ u.host = v.host

\* http.NewRequestWithContext(..., key, nil) and the two addHeaders calls.
NewRequest(key, outer) ==
  LET safe == addHeaders(headersSafe, outer.hdrs, NoHeaders)
  IN  [url |-> key,
       hdrs |-> IF SameOrigin(key, outer.url)
                THEN addHeaders(headersUnsafe, outer.hdrs, safe) ELSE safe]

\* config.go: setCustomHeaders(req) on the headers h.
setCustomHeaders(h) ==
  [n \in HeaderNames |-> IF n \in DOMAIN globalConfig.Headers
                         THEN globalConfig.Headers[n] ELSE h[n]]

\* config.go: resolveFragmentURL(fragmentURL, requestURL).
resolveFragmentURL(fragmentURL, requestURL) ==
  IF globalConfig.BaseURL # NoUrl
  THEN ResolveReference(globalConfig.BaseURL, fragmentURL)
  ELSE sanitizeURL(fragmentURL, requestURL)

\* A nested Parse that keeps the request of the enclosing Parse.
NewReqOuter(outer, rq) == outer

\* newReq := rq, and newReq = rq after the alt request: the request the
\* nested Parse runs under is the last one made.
NewReq(outer, rq) == rq

\* The configurations, as Configure leaves them, and the client requests.
RequestConfigs ==
  [MinimumCacheTTL : {defaultTTL}, CacheTTLJitter : {0},
   BaseURL : {NoUrl, Url("http", "b", "")},
   Headers : {<< >>, [n \in {"Accept"} |-> "cfg"], [n \in {"X-Backend"} |-> "cfg"]}]
ClientHeaders ==
  {[n \in HeaderNames |-> IF n \in present THEN "client" ELSE ""] :
     present \in {{}, {"Accept", "Cookie"}, {"Cookie", "Authorization"}}}
ClientRequests ==
  [url : {Url(sc, h, "/x") : sc \in Schemes, h \in Hosts}, hdrs : ClientHeaders]

\* probe holds the requests of one Parse: the client's request, the request
\* the current Parse runs under (req) and its nesting depth, and the last
\* fragment request made (rq) with the reference it was made for (ref), the
\* request it was made under (under) and its kind, and the request that
\* fetched the body the current Parse works on (fetcher).
NoRequest == [hdrs |-> NoHeaders, url |-> NoUrl]
RequestStart(cfg, client) ==
  [fn |-> "requests", config |-> cfg, client |-> client, req |-> client,
   depth |-> 0, stage |-> "parse", rq |-> NoRequest, ref |-> NoUrl,
   under |-> NoRequest, kind |-> "none", fetcher |-> NoRequest]

\* FetchContent: the request for the include's src.
RequestPrimary(src) ==
  /\ probe.fn = "requests" /\ probe.stage = "parse"
  /\ probe' = [probe EXCEPT
                 !.rq = NewRequest(sanitizeURL(src, probe.req.url), probe.req),
                 !.ref = src, !.under = probe.req, !.kind = "primary",
                 !.stage = "primary"]
  /\ UNCHANGED <<cacheVars, callVars, lastGet>>

\* FetchContent: the request for the include's alt, after the primary
\* request has failed.
RequestAlt(alt) ==
  /\ probe.fn = "requests" /\ probe.stage = "primary"
  /\ probe' = [probe EXCEPT
                 !.rq = NewRequest(sanitizeURL(alt, probe.req.url), probe.req),
                 !.ref = alt, !.under = probe.req, !.kind = "alt",
                 !.stage = "alt"]
  /\ UNCHANGED <<cacheVars, callVars, lastGet>>

\* Parse(rawContent, newReq) on a body that holds an include.
RequestNested ==
  /\ probe.fn = "requests" /\ probe.stage \in {"primary", "alt"}
  /\ probe.depth < MaxDepth
  /\ probe' = [probe EXCEPT !.req = NewReq(probe.req, probe.rq),
                            !.fetcher = probe.rq,
                            !.depth = @ + 1, !.stage = "parse"]
  /\ UNCHANGED <<cacheVars, callVars, lastGet>>

RequestInit ==
  Idle /\ \E cfg \in RequestConfigs, client \in ClientRequests :
            probe = RequestStart(cfg, client)

RequestNext ==
  \/ \E src \in Refs : RequestPrimary(src)
  \/ \E alt \in Refs : RequestAlt(alt)
  \/ RequestNested

RequestSpec == RequestInit /\ [][RequestNext]_vars

\* ------------------------------------------------- Parse called twice
\* Parse as a function of the buffer when every fetch comes back with the
\* same body: collectIncludes, the fetch tasks, the replacement loop and
\* processNonIncludes.
ParseOf(b, body) ==
  LET incs == collectIncludes(b)
      results == [i \in 1..Len(incs) |->
                    [content |-> IF ReachesFetch(TagBytes(b, incs[i]))
                                 THEN body ELSE <<>>,
                     position |-> incs[i].position,
                     length |-> incs[i].length]]
  IN  processNonIncludes(SpliceFrom(b, results, Len(results)))

\* A remove tag between the two halves of an opening, and between the two
\* halves of a whole remove tag.
SplitOpening == <<"<", "e">> \o RemoveTag \o <<"s", "i">>
SplitRemove == <<"<", "e">> \o RemoveTag \o From(RemoveTag, 2)
TwiceDocs == Docs \cup {SplitOpening, SplitRemove}

\* probe holds the buffer, the body every fetch returns, and what the
\* first Parse (once) and the Parse of its output (twice) returned.
TwiceStart(input, body) ==
  [fn |-> "ParseTwice", input |-> input, body |-> body, stage |-> "start",
   once |-> [b |-> <<>>, panic |-> FALSE],
   twice |-> [b |-> <<>>, panic |-> FALSE]]

\* Parse(B, req)
ParseFirst ==
  /\ probe.fn = "ParseTwice" /\ probe.stage = "start"
  /\ LET r == ParseOf(probe.input, probe.body)
     IN  probe' = [probe EXCEPT !.once = r,
                                !.stage = IF r.panic THEN "panic" ELSE "once"]
  /\ UNCHANGED <<cacheVars, callVars, lastGet>>

\* Parse(Parse(B, req), req)
ParseSecond ==
  /\ probe.fn = "ParseTwice" /\ probe.stage = "once"
  /\ probe' = [probe EXCEPT !.twice = ParseOf(probe.once.b, probe.body),
                            !.stage = "twice"]
  /\ UNCHANGED <<cacheVars, callVars, lastGet>>

TwiceInit ==
  Idle /\ \E input \in TwiceDocs, body \in Fragments :
            probe = TwiceStart(input, body)
TwiceNext == ParseFirst \/ ParseSecond
TwiceSpec == TwiceInit /\ [][TwiceNext]_vars

\* ------------------------------------------ writer.go: WriteHeader
MaxCalls == 3
StatusOK == 200
StatusCodes == {0, StatusOK, 301, 302, 404, 500}

\* A wrapper that answers every call with 200.
ForwardedAlwaysOK(statusCode) == StatusOK

\* The status Writer.WriteHeader hands to the wrapped ResponseWriter.
ForwardedStatus(statusCode) ==
  IF statusCode = 0 THEN StatusOK ELSE statusCode

\* probe.calls holds, for each call of Writer.WriteHeader, the status it
\* was called with and the status w.rw.WriteHeader received.
WriteHeader(statusCode) ==
  /\ probe.fn = "WriteHeader" /\ Len(probe.calls) < MaxCalls
  /\ probe' = [probe EXCEPT !.calls =
                 Append(@, [statusCode |-> statusCode,
                            forwarded |-> ForwardedStatus(statusCode)])]
  /\ UNCHANGED <<cacheVars, callVars, lastGet>>

WriterInit == Idle /\ probe = [fn |-> "WriteHeader", calls |-> <<>>]
WriterNext == \E statusCode \in StatusCodes : WriteHeader(statusCode)
WriterSpec == WriterInit /\ [][WriterNext]_vars

\* ------------------------------- esi.go: fetchIncludesParallel's tasks
\* A Wait that returns whatever the counter is.
WgAny(wg) == TRUE

\* wg.Wait() returns when the counter is zero.
WgZero(wg) == wg = 0

\* probe holds one run of fetchIncludesParallel: the buffer as it came in
\* (input) and as it is (b), the include plan, how many iterations of the
\* starting loop have run (spawned), the WaitGroup counter (wg), each
\* task's position (task), the tag bytes it read and the result slots, and
\* the largest number of tasks that were running at one time (peak).
Running(task) == {i \in DOMAIN task : task[i] \in {"started", "read"}}
TasksStart(input) ==
  LET incs == collectIncludes(input)
  IN  [fn |-> "fetchIncludesParallel", input |-> input, b |-> input,
       includes |-> incs, spawned |-> 0, wg |-> 0, stage |-> "spawn",
       task |-> [i \in 1..Len(incs) |-> "none"],
       tagBytes |-> [i \in 1..Len(incs) |-> <<>>],
       results |-> [i \in 1..Len(incs) |->
                      [content |-> <<>>, position |-> 0, length |-> 0]],
       peak |-> 0]

\* One iteration of the starting loop: wg.Add(1); go func(i, inc) {...}
TaskSpawn ==
  /\ probe.fn = "fetchIncludesParallel" /\ probe.stage = "spawn"
  /\ probe.spawned < Len(probe.includes)
  /\ LET i == probe.spawned + 1
         task == [probe.task EXCEPT ![i] = "started"]
     IN  probe' = [probe EXCEPT
                     !.spawned = i, !.wg = @ + 1, !.task = task,
                     !.peak = Max(@, Cardinality(Running(task)))]
  /\ UNCHANGED <<cacheVars, callVars, lastGet>>

\* Task i: tagBytes := b[incReq.position:endPos]
TaskRead(i) ==
  /\ probe.fn = "fetchIncludesParallel"
  /\ i \in DOMAIN probe.task /\ probe.task[i] = "started"
  /\ probe' = [probe EXCEPT
                 !.task[i] = "read",
                 !.tagBytes[i] = TagBytes(probe.b, probe.includes[i])]
  /\ UNCHANGED <<cacheVars, callVars, lastGet>>

\* Task i: content := FetchContent(tagBytes, req), which comes back with r
\* when it fetches; results[index] = ...; the deferred wg.Done().
TaskFinish(i, r) ==
  /\ probe.fn = "fetchIncludesParallel"
  /\ i \in DOMAIN probe.task /\ probe.task[i] = "read"
  /\ probe' = [probe EXCEPT
                 !.task[i] = "done", !.wg = @ - 1,
                 !.results[i] =
                   [content |-> IF ReachesFetch(probe.tagBytes[i])
                                THEN r ELSE <<>>,
                    position |-> probe.includes[i].position,
                    length |-> probe.includes[i].length]]
  /\ UNCHANGED <<cacheVars, callVars, lastGet>>

\* After the loop: wg.Wait(), then the replacement loop.
TaskJoin ==
  /\ probe.fn = "fetchIncludesParallel" /\ probe.stage = "spawn"
  /\ probe.spawned = Len(probe.includes)
  /\ WgZero(probe.wg)
  /\ probe' = [probe EXCEPT
                 !.b = SpliceFrom(probe.b, probe.results, Len(probe.results)),
                 !.stage = "spliced"]
  /\ UNCHANGED <<cacheVars, callVars, lastGet>>

\* parseParallel calls fetchIncludesParallel when the plan is not empty.
TasksInit ==
  Idle /\ \E input \in TagDocs :
            collectIncludes(input) # <<>> /\ probe = TasksStart(input)
TasksNext ==
  \/ TaskSpawn
  \/ \E i \in 1..(MaxTags + 1) : TaskRead(i)
  \/ \E i \in 1..(MaxTags + 1), r \in Fragments : TaskFinish(i, r)
  \/ TaskJoin
TasksSpec == TasksInit /\ [][TasksNext]_vars

\* --------------------------------------- the cache's RWMutex (c.mu)
\* probe holds the lock (the goroutines holding the read lock, and the one
\* holding the write lock or 0) and each goroutine's position in Get, Put
\* or Reset, with the arguments of its call.
MuIdle == [at |-> "idle", data |-> Nil, key |-> 0, resp |-> NoResp]
MuStart ==
  [fn |-> "mu", g |-> [c \in Procs |-> MuIdle], readers |-> {}, writer |-> 0]

\* The goroutines that are in the middle of changing c.lru or c.entries.
Mutating(g) == {c \in Procs : g[c].at \in {"moving", "putting", "resetting"}}

\* What a change of the list leaves behind when another change ran at the
\* same time: a data race, after which the list may hold any of the keys
\* in any order.
RacedLists ==
  UNION {{o \in [1..n -> DOMAIN entries] :
            \A i, j \in 1..n : i # j => o[i] # o[j]} :
         n \in 0..Cardinality(DOMAIN entries)}

\* Get: c.mu.RLock()
MuRLock(c, k) ==
  /\ probe.fn = "mu" /\ probe.g[c].at = "idle" /\ probe.writer = 0
  /\ probe' = [probe EXCEPT !.readers = @ \cup {c},
                            !.g[c] = [MuIdle EXCEPT !.at = "get", !.key = k]]
  /\ UNCHANGED <<cacheVars, callVars, lastGet>>

\* Get: the lookup and the expiry test; on a hit c.lru.MoveToFront(elem)
\* is entered.
MuGetLook(c) ==
  /\ probe.fn = "mu" /\ probe.g[c].at = "get"
  /\ probe' = [probe EXCEPT !.g[c].at =
                 IF GetHit(probe.g[c].key) THEN "moving" ELSE "runlock"]
  /\ UNCHANGED <<cacheVars, callVars, lastGet>>

\* Get: c.lru.MoveToFront(elem) completes.
MuGetMove(c) ==
  /\ probe.fn = "mu" /\ probe.g[c].at = "moving"
  /\ IF Mutating(probe.g) = {c}
     THEN lru' = MoveToFront(lru, probe.g[c].key)
     ELSE lru' \in RacedLists
  /\ probe' = [probe EXCEPT !.g[c].at = "runlock"]
  /\ UNCHANGED <<now, entries, callVars, lastGet>>

\* Get: the deferred c.mu.RUnlock()
MuRUnlock(c) ==
  /\ probe.fn = "mu" /\ probe.g[c].at = "runlock"
  /\ probe' = [probe EXCEPT !.readers = @ \ {c}, !.g[c] = MuIdle]
  /\ UNCHANGED <<cacheVars, callVars, lastGet>>

\* Put with a TTL other than 0: c.mu.Lock()
MuPutLock(c, k, data, resp) ==
  /\ probe.fn = "mu" /\ probe.g[c].at = "idle"
  /\ parseTTL(resp) # 0
  /\ probe.writer = 0 /\ probe.readers = {}
  /\ probe' = [probe EXCEPT !.writer = c,
                            !.g[c] = [at |-> "putting", data |-> data,
                                      key |-> k, resp |-> resp]]
  /\ UNCHANGED <<cacheVars, callVars, lastGet>>

\* Put: the update, or the insert and the eviction.
MuPut(c) ==
  /\ probe.fn = "mu" /\ probe.g[c].at = "putting"
  /\ LET r == PutCache(probe.g[c].key, probe.g[c].data, probe.g[c].resp)
     IN  /\ entries' = r.entries
         /\ lru' = r.lru
  /\ probe' = [probe EXCEPT !.g[c].at = "unlock"]
  /\ UNCHANGED <<now, callVars, lastGet>>

\* Reset: c.mu.Lock()
MuResetLock(c) ==
  /\ probe.fn = "mu" /\ probe.g[c].at = "idle"
  /\ probe.writer = 0 /\ probe.readers = {}
  /\ probe' = [probe EXCEPT !.writer = c,
                            !.g[c] = [MuIdle EXCEPT !.at = "resetting"]]
  /\ UNCHANGED <<cacheVars, callVars, lastGet>>

\* Reset: a new map and a new list.
MuReset(c) ==
  /\ probe.fn = "mu" /\ probe.g[c].at = "resetting"
  /\ entries' = << >>
  /\ lru' = << >>
  /\ probe' = [probe EXCEPT !.g[c].at = "unlock"]
  /\ UNCHANGED <<now, callVars, lastGet>>

\* Put and Reset: the deferred c.mu.Unlock()
MuUnlock(c) ==
  /\ probe.fn = "mu" /\ probe.g[c].at = "unlock"
  /\ probe' = [probe EXCEPT !.writer = 0, !.g[c] = MuIdle]
  /\ UNCHANGED <<cacheVars, callVars, lastGet>>

MuInit == Idle /\ probe = MuStart
MuNext ==
  \/ Tick
  \/ \E c \in Procs, k \in Keys : MuRLock(c, k)
  \/ \E c \in Procs : MuGetLook(c) \/ MuGetMove(c) \/ MuRUnlock(c)
  \/ \E c \in Procs, k \in Keys, d \in Bodies :
       MuPutLock(c, k, d, [cc |-> <<MaxAge(<<"1">>)>>, status |-> 200])
  \/ \E c \in Procs : MuPut(c) \/ MuResetLock(c) \/ MuReset(c) \/ MuUnlock(c)
MuSpec == MuInit /\ [][MuNext]_vars

\* ------------------------------------ clients with their own credentials
\* Every caller is a client with its own Cookie and Authorization, which
\* fetchFn copies to a same-origin request; the origin answers a request
\* that carries client c's credentials with a body of c's own, or fails.
\* All clients include the one src u.
Personal(c) == IF c = 1 THEN "a" ELSE "b"
SharePrimary(c) ==
  {NetErr, Http(200, <<MaxAge(<<"1">>)>>, Personal(c)), Http(500, <<>>, ErrBody)}

ShareNext ==
  \/ Tick
  \/ \E c \in Procs : Begin(c, SrcUrl)
  \/ \E c \in Procs : Step(c, FlightTags, SharePrimary(c), FlightAlt)

ShareSpec == Init /\ [][ShareNext]_vars

\* --------------------------------- includes inside fetched fragments
\* FetchContent calls as frames: the tasks of the document's Parse (parent
\* 0) and the tasks of the Parse that a frame's fetchFn runs on the body it
\* fetched.  bodies[k] is the key the fragment of key k includes, 0 when
\* it includes none.  table is c.inFlight, a key's record being named by
\* the frame that stored it; wg is that record's counter and rec the
\* record a loser waits on.
Frame(k, p) == [at |-> "get", key |-> k, parent |-> p, rec |-> 0, wg |-> 0]
NestStart(tops, bodies) ==
  [fn |-> "nested", bodies |-> bodies, table |-> << >>,
   frames |-> [i \in 1..Len(tops) |-> Frame(tops[i], 0)]]
NestFrames == 1..(MaxTags * (NumKeys + 1))
At(f, at) ==
  probe.fn = "nested" /\ f \in DOMAIN probe.frames /\ probe.frames[f].at = at
Children(f) == {g \in DOMAIN probe.frames : probe.frames[g].parent = f}

\* GetOrFetch's fast path: c.Get(url)
NestGet(f) ==
  /\ At(f, "get")
  /\ lru' = GetLru(probe.frames[f].key)
  /\ probe' = [probe EXCEPT !.frames[f].at =
                 IF GetHit(probe.frames[f].key) THEN "done" ELSE "los"]
  /\ UNCHANGED <<now, entries, callVars, lastGet>>

\* c.inFlight.LoadOrStore(url, &inFlightRequest{})
NestLoadOrStore(f) ==
  /\ At(f, "los")
  /\ LET k == probe.frames[f].key
     IN  IF Loaded(probe.table, k)
         THEN probe' = [probe EXCEPT !.frames[f].at = "wait",
                                     !.frames[f].rec = probe.table[k]]
         ELSE probe' = [probe EXCEPT !.frames[f].at = "add",
                                     !.table = (k :> f) @@ @]
  /\ UNCHANGED <<cacheVars, callVars, lastGet>>

\* The loser: req.wg.Wait() returns when the record's counter is 0.
NestWait(f) ==
  /\ At(f, "wait")
  /\ probe.frames[probe.frames[f].rec].wg = 0
  /\ probe' = [probe EXCEPT !.frames[f].at = "done"]
  /\ UNCHANGED <<cacheVars, callVars, lastGet>>

\* The winner: req.wg.Add(1)
NestAdd(f) ==
  /\ At(f, "add")
  /\ probe' = [probe EXCEPT !.frames[f].at = "do", !.frames[f].wg = 1]
  /\ UNCHANGED <<cacheVars, callVars, lastGet>>

\* fetchFn: the origin answers.  A body is parsed: Parse collects the
\* include it holds and fetchIncludesParallel starts its task.
NestDo(f, ok) ==
  /\ At(f, "do")
  /\ LET inner == probe.bodies[probe.frames[f].key]
     IN  IF ~ok THEN probe' = [probe EXCEPT !.frames[f].at = "wgdone"]
         ELSE IF inner = 0 THEN probe' = [probe EXCEPT !.frames[f].at = "put"]
         ELSE probe' = [probe EXCEPT
                          !.frames = Append([@ EXCEPT ![f].at = "join"],
                                            Frame(inner, f))]
  /\ UNCHANGED <<cacheVars, callVars, lastGet>>

\* fetchIncludesParallel inside fetchFn: wg.Wait() returns when the tasks
\* have ended; the body is spliced and fetchFn returns it.
NestJoin(f) ==
  /\ At(f, "join")
  /\ \A g \in Children(f) : probe.frames[g].at = "done"
  /\ probe' = [probe EXCEPT !.frames[f].at = "put"]
  /\ UNCHANGED <<cacheVars, callVars, lastGet>>

\* The winner: c.Put(url, data, resp)
NestPut(f) ==
  /\ At(f, "put")
  /\ LET r == PutCache(probe.frames[f].key, "a",
                       [cc |-> <<MaxAge(<<"1">>)>>, status |-> 200])
     IN  entries' = r.entries /\ lru' = r.lru
  /\ probe' = [probe EXCEPT !.frames[f].at = "wgdone"]
  /\ UNCHANGED <<now, callVars, lastGet>>

\* The winner's deferred function: req.wg.Done()
NestDone(f) ==
  /\ At(f, "wgdone")
  /\ probe' = [probe EXCEPT !.frames[f].at = "del", !.frames[f].wg = 0]
  /\ UNCHANGED <<cacheVars, callVars, lastGet>>

\* The winner's deferred function: c.inFlight.Delete(url)
NestDelete(f) ==
  /\ At(f, "del")
  /\ probe' = [probe EXCEPT !.frames[f].at = "done",
                            !.table = DropKey(@, probe.frames[f].key)]
  /\ UNCHANGED <<cacheVars, callVars, lastGet>>

NestStep(f) ==
  \/ NestGet(f)
  \/ NestLoadOrStore(f)
  \/ NestWait(f)
  \/ NestAdd(f)
  \/ \E ok \in BOOLEAN : NestDo(f, ok)
  \/ NestJoin(f)
  \/ NestPut(f)
  \/ NestDone(f)
  \/ NestDelete(f)

\* A document of up to MaxTags includes; every fragment includes none, one
\* other fragment, or itself.
NestInit ==
  /\ Idle
  /\ \E n \in 1..MaxTags :
       \E tops \in [1..n -> Keys], bodies \in [Keys -> Keys \cup {0}] :
         probe = NestStart(tops, bodies)

NestNext == \E f \in NestFrames : NestStep(f)

\* Goroutines are scheduled fairly and every origin request returns.
NestSpec ==
  NestInit /\ [][NestNext]_vars /\ \A f \in NestFrames : WF_vars(NestStep(f))

\* ------------------------------ one cached slice spliced by two calls
\* Put keeps the slice it is given and Get returns it, so every call that
\* hits the entry holds the same backing array.  spare is the capacity of
\* that array beyond the fragment's bytes and tail the bytes in it; a
\* call's document is its own digit, the include of u and n more of its
\* digits.  g[c] holds where the replacement of call c is (at), its bytes
\* after the include (suffix), the bytes moved so far (i), whether the
\* inner append took a new array (own) and the bytes read from behind the
\* fragment (x); out is the document the call returns.
MaxSpare == 2
Mark(c) == Digits[c + 1]
AliasIdle == [at |-> "idle", i |-> 0, out |-> <<>>, own |-> FALSE,
              suffix |-> <<>>, x |-> <<>>]
AliasStart(spare) ==
  [fn |-> "alias", g |-> [c \in Procs |-> AliasIdle], spare |-> spare,
   tail |-> [i \in 1..spare |-> "0"]]
AliasDoc(c, suffix) == <<Mark(c)>> \o IncludeU \o suffix

\* FetchContent: GetOrFetch's fast path returns entry.data.
AliasGet(c, n) ==
  /\ probe.fn = "alias" /\ probe.g[c].at \in {"idle", "done"}
  /\ GetHit(SrcUrl)
  /\ lru' = GetLru(SrcUrl)
  /\ probe' = [probe EXCEPT
                 !.g[c] = [AliasIdle EXCEPT !.at = "append",
                                            !.suffix = [i \in 1..n |-> Mark(c)]]]
  /\ UNCHANGED <<now, entries, callVars, lastGet>>

\* The replacement, append(res.content, b[endPos:]...): the bytes after the
\* include are moved behind the fragment's bytes, into the slice's own
\* array when its capacity holds them and into a new array otherwise.
AliasAppend(c) ==
  /\ probe.fn = "alias" /\ probe.g[c].at = "append"
  /\ LET me == probe.g[c]
     IN  IF Len(me.suffix) > probe.spare
         THEN probe' = [probe EXCEPT !.g[c].at = "copy", !.g[c].own = TRUE]
         ELSE IF me.i < Len(me.suffix)
         THEN probe' = [probe EXCEPT !.tail[me.i + 1] = me.suffix[me.i + 1],
                                     !.g[c].i = me.i + 1]
         ELSE probe' = [probe EXCEPT !.g[c].at = "copy", !.g[c].i = 0]
  /\ UNCHANGED <<cacheVars, callVars, lastGet>>

\* The replacement, b = append(b[:res.position], ...): the appended bytes
\* are read back into the document.
AliasCopy(c) ==
  /\ probe.fn = "alias" /\ probe.g[c].at = "copy"
  /\ LET me == probe.g[c]
         from == IF me.own THEN me.suffix ELSE probe.tail
     IN  IF Len(me.x) < Len(me.suffix)
         THEN probe' = [probe EXCEPT !.g[c].x = Append(@, from[Len(me.x) + 1])]
         ELSE probe' = [probe EXCEPT
                          !.g[c].at = "done",
                          !.g[c].out = <<Mark(c)>>
                                         \o BodyBytes(GetData(SrcUrl)) \o me.x]
  /\ UNCHANGED <<cacheVars, callVars, lastGet>>

\* The fragment of u is cached, in a slice of any capacity.
AliasInit ==
  /\ Idle
  /\ \E spare \in 0..MaxSpare : probe = AliasStart(spare)

\* The winner of an earlier fetch: c.Put(url, data, resp) keeps data as it is.
AliasFill ==
  /\ probe.fn = "alias" /\ ~GetHit(SrcUrl)
  /\ LET r == PutCache(SrcUrl, "a", [cc |-> <<MaxAge(<<"1">>)>>, status |-> 200])
     IN  entries' = r.entries /\ lru' = r.lru
  /\ UNCHANGED <<now, callVars, lastGet, probe>>

AliasNext ==
  \/ AliasFill
  \/ \E c \in Procs, n \in 1..MaxSpare : AliasGet(c, n)
  \/ \E c \in Procs : AliasAppend(c)
  \/ \E c \in Procs : AliasCopy(c)

AliasSpec == AliasInit /\ [][AliasNext]_vars

\* ------------------------------------- Writer.Write and the reader
\* ReadToTag: where the next opening starts (the length of next when there
\* is none), where its name starts, and its kind.
ReadToTag(next) ==
  LET esiIdx == FindLit(next, EsiOpen)
      escIdx == FindLit(next, EscOpen)
      isEscapeTag == escIdx # 0 - 1 /\ (esiIdx = 0 - 1 \/ escIdx < esiIdx)
      tagIdx0 == IF isEscapeTag THEN escIdx ELSE esiIdx
      tagIdx1 == IF isEscapeTag THEN escIdx ELSE esiIdx + Len(EsiOpen)
  IN  IF tagIdx0 = 0 - 1
      THEN [esiPointer |-> 0, startTagPosition |-> Len(next), t |-> "nil"]
      ELSE [esiPointer |-> IF isEscapeTag THEN tagIdx1 + 7 ELSE tagIdx1,
            startTagPosition |-> tagIdx0,
            t |-> findTagName(From(next, tagIdx1))]

HasOpenedTags(b) == Holds(b, EsiOpen) \/ Holds(b, EscOpen)

\* includeTag.GetClosePosition; the chunks written hold no tag but include.
GetClosePosition(b) ==
  IF FindLit(b, closeInclude) = 0 - 1 THEN 0
  ELSE FindLit(b, closeInclude) + Len(closeInclude)

\* What a channel of AsyncBuf is sent: text of the chunk, the output of a
\* tag's Process (no, when Process returned nil), or the nil that ends the
\* response.
TextSent(bytes) == [kind |-> "text", no |-> FALSE, val |-> bytes]
TagSent(r) == [kind |-> "tag", no |-> r.no, val |-> r.val]
NilSent == [kind |-> "end", no |-> TRUE, val |-> <<>>]

\* includeTag.Process as the writer's goroutine calls it, on the bytes from
\* the tag's name on: nil without a close or a src, and otherwise what
\* GetOrFetch comes back with (r), the fragment's bytes or, when the fetch
\* failed, nil.
NoBytes == [no |-> TRUE, val |-> <<>>]
ProcessOutputs == {[no |-> FALSE, val |-> <<"r">>], NoBytes}
Process(b, r) ==
  LET closeIdx0 == FindLit(b, closeInclude)
  IN  IF closeIdx0 = 0 - 1 THEN NoBytes
      ELSE IF loadAttributesFails(Slice(b, 8, closeIdx0 + Len(closeInclude)))
      THEN NoBytes
      ELSE r

\* Write, the loop over a buffer with an opening: what is sent on new
\* channels, in order, and the position the loop ends at.
RECURSIVE WriteLoop(_, _, _, _)
WriteLoop(buf, position, r, sent) ==
  IF position >= Len(buf) THEN [position |-> position, sent |-> sent]
  ELSE
    LET rt == ReadToTag(From(buf, position))
        startPos == rt.startTagPosition
        nextPos == rt.esiPointer
        text == IF startPos # 0
                THEN <<TextSent(Slice(buf, position, position + startPos))>>
                ELSE <<>>
        closePosition == GetClosePosition(From(buf, position + startPos))
        tmpBuf == Slice(buf, position + nextPos,
                        position + startPos + closePosition)
    IN  IF rt.t = "nil"
        THEN [position |-> position, sent |-> sent \o text]
        ELSE IF closePosition = 0
        THEN [position |-> position + startPos, sent |-> sent \o text]
        ELSE WriteLoop(buf, position + startPos + closePosition, r,
                       sent \o text \o <<TagSent(Process(tmpBuf, r))>>)

\* The chunks the handler writes: text, an include, an include between
\* text, and an include cut in two after its opening.
IncludeHead == SubSeq(IncludeU, 1, 17)
IncludeTail == SubSeq(IncludeU, 18, 20)
Chunks ==
  {<<"a">>, IncludeU, <<"a">> \o IncludeU \o <<"b">>, <<"a">> \o IncludeHead,
   IncludeTail \o <<"b">>}

\* probe holds the response being written: the chunks still to write
\* (todo), all bytes written (input), w.buf (buf), what each channel of
\* AsyncBuf is sent (chans), w.Iteration, the signals waiting in Ready,
\* where the writing goroutine is (writer), and the reader: its index i,
\* where it is and the bytes it has put out.
ReadyCap == 100
StreamStart(todo) ==
  [fn |-> "stream", todo |-> todo, input |-> <<>>, buf |-> <<>>,
   chans |-> <<>>, Iteration |-> 0, ready |-> 0, writer |-> "idle",
   i |-> 0, reader |-> "ready", out |-> <<>>]

\* Write(b) on a buffer with an opening: the loop; every text and every
\* complete tag gets a channel, a signal and a goroutine that sends.
WriteTags(r) ==
  /\ probe.fn = "stream" /\ probe.writer = "idle" /\ probe.todo # <<>>
  /\ LET buf == probe.buf \o Head(probe.todo)
         w == WriteLoop(buf, 0, r, <<>>)
     IN  /\ HasOpenedTags(buf)
         /\ probe.ready + Len(w.sent) <= ReadyCap
         /\ probe' = [probe EXCEPT
                        !.todo = Tail(@), !.input = @ \o Head(probe.todo),
                        !.buf = From(buf, w.position),
                        !.chans = @ \o w.sent,
                        !.Iteration = @ + Len(w.sent),
                        !.ready = @ + Len(w.sent)]
  /\ UNCHANGED <<cacheVars, callVars, lastGet>>

\* Write(b) on a buffer without an opening: one channel, one signal, and
\* ch <- buf, which waits for the reader.
WritePlain ==
  /\ probe.fn = "stream" /\ probe.writer = "idle" /\ probe.todo # <<>>
  /\ LET buf == probe.buf \o Head(probe.todo)
     IN  /\ ~HasOpenedTags(buf)
         /\ probe.ready < ReadyCap
         /\ probe' = [probe EXCEPT
                        !.todo = Tail(@), !.input = @ \o Head(probe.todo),
                        !.buf = <<>>,
                        !.chans = Append(@, TextSent(buf)),
                        !.ready = @ + 1, !.writer = "plain"]
  /\ UNCHANGED <<cacheVars, callVars, lastGet>>

\* The handler has returned: a new channel is appended, signalled, and
\* sent nil.
WriteEnd ==
  /\ probe.fn = "stream" /\ probe.writer = "idle" /\ probe.todo = <<>>
  /\ probe.ready < ReadyCap
  /\ probe' = [probe EXCEPT !.chans = Append(@, NilSent), !.ready = @ + 1,
                            !.writer = "sentinel"]
  /\ UNCHANGED <<cacheVars, callVars, lastGet>>

\* The reader: <-w.Ready, then ch := w.AsyncBuf[i]
ReadSignal ==
  /\ probe.fn = "stream" /\ probe.reader = "ready" /\ probe.ready > 0
  /\ probe' = [probe EXCEPT !.ready = @ - 1,
                            !.reader = IF probe.i >= Len(probe.chans)
                                       THEN "ready" ELSE "recv"]
  /\ UNCHANGED <<cacheVars, callVars, lastGet>>

\* The reader: rs := <-ch; nil ends it with done <- true, anything else is
\* put out.  The send it meets is a goroutine's, or the writing
\* goroutine's own, which then goes on.
ReadChannel ==
  /\ probe.fn = "stream" /\ probe.reader = "recv"
  /\ LET ch == probe.chans[probe.i + 1]
         last == probe.i + 1 = Len(probe.chans)
         writer == IF last /\ probe.writer = "plain" THEN "idle"
                   ELSE IF last /\ probe.writer = "sentinel" THEN "end"
                   ELSE probe.writer
     IN  probe' = IF ch.no
                  THEN [probe EXCEPT !.reader = "done", !.writer = writer]
                  ELSE [probe EXCEPT !.reader = "ready", !.i = @ + 1,
                                     !.out = @ \o ch.val, !.writer = writer]
  /\ UNCHANGED <<cacheVars, callVars, lastGet>>

StreamInit ==
  /\ Idle
  /\ \E n \in 1..MaxCalls : \E todo \in [1..n -> Chunks] :
       probe = StreamStart(todo)

StreamNext ==
  \/ \E r \in ProcessOutputs : WriteTags(r)
  \/ WritePlain
  \/ WriteEnd
  \/ ReadSignal
  \/ ReadChannel

\* The reader goroutine is scheduled fairly.
StreamSpec ==
  StreamInit /\ [][StreamNext]_vars /\ WF_vars(ReadSignal) /\ WF_vars(ReadChannel)

\* ================================================================ claims
WinnerPcs == {"add", "fetch", "put", "wgdone", "del"}
Winners(k) == {c \in Procs : pc[c] \in WinnerPcs /\ ckey[c] = k}

\* C1: a caller that began GetOrFetch before a fetch of its key completed
\* never executes fetchFn itself, so the callers sharing one miss execute
\* fetchFn exactly once between them.
C1_SingleFetch == \A c \in Procs : pc[c] = "fetch" => ~stale[c]

\* C2: a caller that found an in-flight record installed returns only after
\* the winner has stored (result, err) into the record, and returns them.
C2_LoserSeesWinner ==
  \A c \in Procs : pc[c] = "ret" /\ out[c].how = "waited" => out[c].note

\* C3: for every key at most one caller holds the winner role and at most
\* one in-flight record exists, which is the one in the in-flight table.
C3_OneWinner ==
  \A k \in Keys :
    /\ Cardinality(Winners(k)) <= 1
    /\ (k \in DOMAIN inFlight) = (Winners(k) # {})
    /\ \A c \in Winners(k) : k \in DOMAIN inFlight /\ inFlight[k] = req[c]
C3_Witness ==
  \E c, d \in Procs :
    /\ c # d /\ ckey[c] = ckey[d]
    /\ pc[c] = "fetch" /\ pc[d] = "wait" /\ req[d] = req[c]
    /\ recs[req[c]].wg = 1

\* C4: every installed in-flight record has its latch released, exactly
\* once, after data as after an error, and every caller blocked on the
\* latch returns.
Installed(r) == \E k \in DOMAIN inFlight : inFlight[k] = r
C4_LatchReleased ==
  /\ \A r \in RecIds : [](recs[r].done <= 1)
  /\ \A r \in RecIds : Installed(r) ~> (recs[r].done = 1)
  /\ \A c \in Procs : (pc[c] = "wait") ~> (pc[c] = "ret")
C4_Witness ==
  \E r \in RecIds, c \in Procs :
    /\ recs[r].done = 1 /\ recs[r].err # Nil
    /\ pc[c] = "wait" /\ req[c] = r

\* C5: the number of keys in the map equals the length of the LRU list and
\* both are at most maxCacheEntries.
C5_MapMatchesList ==
  /\ Cardinality(DOMAIN entries) = Len(lru)
  /\ Len(lru) <= maxCacheEntries
C5_Witness ==
  /\ Len(lru) = maxCacheEntries
  /\ lastGet.ok
  /\ lastGet.key \notin DOMAIN entries

\* C6: a Get of a key whose entry was Put with TTL T at time t0 hits with
\* the entry's data at every time t < t0 + T and misses at every time
\* t >= t0 + T, t = t0 + T included.
C6_ExpiresAtTTL ==
  lastGet.found =>
    /\ lastGet.ok = (lastGet.at < lastGet.exp)
    /\ lastGet.ok => lastGet.data = lastGet.stored

\* C7: a call served from the cache splices the bytes that the first fetch
\* of the entry's life stored.
C7_HitServesFirstBytes ==
  \A c \in Procs : pc[c] = "ret" /\ out[c].how = "hit" => out[c].note

\* C8: a fetch that ends in an error or in a status other than 200 is never
\* Put, and when it completes its key has no live entry, so the next
\* GetOrFetch of the key fetches again.
C8_FailedFetchNotCached ==
  \A c \in Procs :
    /\ pc[c] = "put" => ~FetchFailed(fres[c])
    /\ pc[c] = "del" /\ FetchFailed(fres[c]) => ~GetHit(ckey[c])

\* C9: when the primary fetch fails and no alt succeeds, FetchContent
\* returns empty bytes, never the body of the error response.
C9_FailedIncludeIsEmpty ==
  \A c \in Procs :
    pc[c] = "ret" /\ out[c].how = "fetched"
      /\ (out[c].err # Nil \/ out[c].status = 0 \/ out[c].status >= 400)
    => Content(out[c].result, out[c].err) = Nil

\* C10: a 200 response that carries no-cache, no-store or max-age=0 is not
\* stored: its Put leaves the cache as it was.
CarriesNoStore(cc) ==
  \E i \in 1..Len(cc) : cc[i] \in {NoCache, NoStore, MaxAge(<<"0">>)}
C10_UnsafeNotStored ==
  [][\A c \in Procs :
       Put(c) /\ CarriesNoStore(fres[c].resp.cc) => entries' = entries]_vars

\* C11: parseTTL returns 0 for every Cache-Control value that holds a
\* no-cache or no-store directive, whatever else it holds and in any order.
HasNoCache(cc) == \E i \in 1..Len(cc) : cc[i] \in {NoCache, NoStore}
C11_NoCacheGivesZero ==
  probe.fn = "parseTTL" /\ probe.called /\ HasNoCache(probe.resp.cc)
    => probe.ttl = 0

\* C12: parseTTL returns exactly N for a Cache-Control value that holds
\* max-age=N, N >= 0, alone or beside public and must-revalidate.
MaxAgeBesideNeutral(cc, n) ==
  \E i \in 1..Len(cc) :
    /\ cc[i] = MaxAge(Decimal(n))
    /\ \A j \in (1..Len(cc)) \ {i} : cc[j] \in {Public, MustRevalidate}
C12_MaxAgeExact ==
  \A n \in AgeValues :
    probe.fn = "parseTTL" /\ probe.called /\ MaxAgeBesideNeutral(probe.resp.cc, n)
      => probe.ttl = n
C12_Witness ==
  /\ probe.fn = "parseTTL" /\ probe.called
  /\ probe.resp.cc = <<Public, MaxAge(<<"0">>)>>
  /\ probe.ttl = 0

\* C13: parseTTL returns defaultTTL for a nil response, for a response
\* without Cache-Control, and when the only cache directive is a max-age
\* whose value is not a non-negative integer.
OnlyBadMaxAge(cc) ==
  /\ \E i \in 1..Len(cc) : \E a \in BadAgeArgs : cc[i] = MaxAge(a)
  /\ \A i \in 1..Len(cc) :
       \/ \E a \in BadAgeArgs : cc[i] = MaxAge(a)
       \/ cc[i] \in {Public, MustRevalidate}
C13_DefaultTTL ==
  probe.fn = "parseTTL" /\ probe.called
    /\ (probe.resp.status = 0 \/ probe.resp.cc = <<>>
          \/ OnlyBadMaxAge(probe.resp.cc))
    => probe.ttl = defaultTTL
C13_Witness ==
  /\ probe.fn = "parseTTL" /\ probe.called
  /\ probe.resp.cc = <<MaxAge(<<"-", "5">>)>>
  /\ probe.ttl = defaultTTL

\* C14: under MinimumCacheTTL = M an entry Put with derived TTL N > 0
\* expires no earlier than max(N, M) seconds after the Put, and a Put with
\* derived TTL 0 stores nothing.
C14_MinimumTTLFloor ==
  [][\A k \in Keys, d \in Bodies, cc \in CCHeaders :
       LET resp == [status |-> 200, cc |-> cc]
           n == parseTTL(resp)
       IN  CachePut(k, d, resp) =>
             IF n = 0 THEN entries' = entries
             ELSE /\ k \in DOMAIN entries'
                  /\ entries'[k].expiresAt
                       >= now + Max(n, globalConfig.MinimumCacheTTL)]_vars

\* C15: the entry a Put evicts is the one least recently inserted or hit by
\* Get, and it is never the entry a Get hit just before that Put.
C15_EvictsLeastRecent ==
  probe.fn = "lru" /\ probe.victim # 0
    => probe.victim = probe.oldest /\ probe.victim # probe.hitThen
C15_Witness ==
  /\ probe.fn = "lru" /\ probe.victim # 0
  /\ probe.hitThen # 0 /\ probe.hitThen \in DOMAIN entries

\* C16: after the include phase the buffer is B[0:p1] + R1 + B[end1:p2] +
\* R2 + ... + Rk + B[endk:], whatever the order in which the fetch tasks
\* completed and whatever the lengths of the Ri.
RECURSIVE Assemble(_, _, _, _)
Assemble(B, results, i, from) ==
  IF i > Len(results) THEN From(B, from)
  ELSE Slice(B, from, results[i].position) \o results[i].content
         \o Assemble(B, results, i + 1,
                     results[i].position + results[i].length)
SitesDisjoint(incs) ==
  \A i \in 1..(Len(incs) - 1) :
    incs[i].position + incs[i].length <= incs[i + 1].position
IncludePhaseOver ==
  probe.fn = "Parse" /\ probe.stage \in {"rest", "done", "panic"}
C16_SpliceByPosition ==
  IncludePhaseOver /\ probe.includes # <<>> /\ SitesDisjoint(probe.includes)
    => probe.spliced = Assemble(probe.input, probe.results, 1, 0)
C16_Witness ==
  /\ IncludePhaseOver /\ Len(probe.includes) = 2
  /\ Len(probe.results[1].content) > probe.results[1].length
  /\ Len(probe.results[2].content) < probe.results[2].length
  /\ probe.includes[1].position > 0
  /\ probe.includes[2].position
       > probe.includes[1].position + probe.includes[1].length

\* C17: Parse of a buffer without any ESI construct returns the buffer
\* byte for byte and fetches nothing.
ParseOver == probe.fn = "Parse" /\ probe.stage \in {"done", "panic"}
NoConstruct(B) == ~Holds(B, EsiOpen) /\ ~Holds(B, EscOpen)
C17_PlainBufferUnchanged ==
  ParseOver /\ NoConstruct(probe.input)
    => /\ probe.stage = "done" /\ probe.b = probe.input
       /\ probe.includes = <<>> /\ probe.fetched = {}
C17_Witness ==
  /\ ParseOver /\ NoConstruct(probe.input)
  /\ Holds(probe.input, SubSeq(EsiOpen, 1, 4))
  /\ Holds(probe.input, closeInclude)

\* C18: Parse of a buffer whose only openings are <esi: openings without a
\* handler (an unknown name, or try) returns normally and leaves the buffer
\* unchanged.
OnlyUnhandled(B) ==
  /\ Holds(B, EsiOpen) /\ ~Holds(B, EscOpen)
  /\ \A i \in 0..Len(B) :
       Occurs(B, EsiOpen, i) => findTagName(From(B, i + Len(EsiOpen))) = "nil"
C18_UnhandledTagLeft ==
  ParseOver /\ OnlyUnhandled(probe.input)
    => probe.stage = "done" /\ probe.b = probe.input

\* C19: an include whose attributes fail to parse causes no fetch and its
\* markup is still in the buffer after the include phase.
NoIncludeFetchable(B, incs) ==
  /\ incs # <<>>
  /\ \A i \in 1..Len(incs) : ~ReachesFetch(TagBytes(B, incs[i]))
C19_BadIncludeLeft ==
  IncludePhaseOver /\ NoIncludeFetchable(probe.input, probe.includes)
    => probe.fetched = {} /\ probe.spliced = probe.input

\* C20: when the include has an alt attribute and the primary request
\* errors or returns a status >= 400, the alt URL is requested next, and an
\* alt response of status 200 puts the alt body in the place of the
\* include; after a primary status below 400 the alt URL is not requested.
PrimaryFailed == probe.p.kind = "neterr" \/ probe.p.status >= 400
AltOk == probe.a.kind = "resp" /\ probe.a.status = 200
FetchedDone ==
  probe.fn = "FetchContent" /\ probe.stage = "done" /\ probe.asked # <<>>
C20_AltFallback ==
  FetchedDone =>
    /\ HasAttr(probe.tag, AltKey) /\ PrimaryFailed
         => /\ probe.asked = <<"src", "alt">>
            /\ AltOk => probe.spliced = <<"x", probe.a.body, "y">>
    /\ ~PrimaryFailed => probe.asked = <<"src">>
C20_Witness ==
  /\ FetchedDone /\ HasAttr(probe.tag, AltKey)
  /\ probe.p.kind = "resp" /\ probe.p.status = 500
  /\ AltOk /\ probe.asked = <<"src", "alt">>
  /\ probe.spliced = <<"x", AltBody, "y">>

\* C21: when the primary and the alt request both fail (error or status
\* >= 400), the site is replaced by no bytes; the fetch ends without an
\* error when the include has onerror=continue, and with an error when it
\* has not.
AltFailed == probe.a.kind = "neterr" \/ probe.a.status >= 400
BothFailed ==
  /\ FetchedDone /\ probe.asked = <<"src", "alt">>
  /\ PrimaryFailed /\ AltFailed
C21_BothFailEmpty ==
  BothFailed =>
    /\ probe.spliced = <<"x", "y">>
    /\ (probe.err = Nil) <=> Attrs(probe.tag).silent

\* C22: a fragment request, primary or alt and at any depth, carries Cookie
\* or Authorization only when its URL has the scheme and the host with
\* port of the request the include is processed under, and then only when
\* it has those of the client's request as well.
RequestMade == probe.fn = "requests" /\ probe.kind # "none"
CarriesCredentials(r) == \E n \in {"Cookie", "Authorization"} : r.hdrs[n] # ""
C22_CredentialsSameOrigin ==
  RequestMade /\ CarriesCredentials(probe.rq)
    => /\ probe.rq.url.scheme = probe.under.url.scheme
       /\ probe.rq.url.host = probe.under.url.host
       /\ probe.rq.url.scheme = probe.client.url.scheme
       /\ probe.rq.url.host = probe.client.url.host
       /\ \A n \in {"Cookie", "Authorization"} :
            probe.rq.hdrs[n] = probe.client.hdrs[n]
C22_Witness ==
  /\ RequestMade /\ probe.depth = MaxDepth /\ probe.kind = "alt"
  /\ probe.rq.hdrs["Cookie"] = "client"
  /\ probe.rq.hdrs["Authorization"] = ""

\* C23: every fragment request carries each header of the configured
\* Headers with the configured value.
C23_CustomHeadersSet ==
  RequestMade => probe.rq.hdrs = setCustomHeaders(probe.rq.hdrs)

\* C24: the URL requested for an include is its reference resolved against
\* BaseURL when BaseURL is not empty, and against the request URL when it
\* is.
C24_BaseURLResolves ==
  RequestMade => probe.rq.url = resolveFragmentURL(probe.ref, probe.under.url)

\* C25: a relative include in a fetched body is requested from the scheme
\* and host of the request that fetched the body, the alt request when the
\* alt was used.
NestedRelative ==
  /\ RequestMade /\ probe.depth > 0 /\ probe.stage \in {"primary", "alt"}
  /\ probe.ref.scheme = ""
C25_NestedResolvesAgainstFragment ==
  NestedRelative =>
    probe.rq.url = Url(probe.fetcher.url.scheme, probe.fetcher.url.host,
                       probe.ref.path)
C25_Witness ==
  /\ NestedRelative /\ probe.depth = 1
  /\ probe.client.url.host = "b"
  /\ probe.fetcher.url = Url("https", "a", "/x")
  /\ probe.ref = Url("", "", "/y")
  /\ probe.rq.url = Url("https", "a", "/y")

\* C26: when the output of Parse holds no ESI opening, Parse of that output
\* returns it unchanged.
ParsedTwice == probe.fn = "ParseTwice" /\ probe.stage = "twice"
C26_IdempotentOnPlainOutput ==
  ParsedTwice /\ NoConstruct(probe.once.b) => probe.twice = probe.once
C26_Witness ==
  /\ ParsedTwice /\ NoConstruct(probe.once.b)
  /\ Holds(probe.input, IncludeU) /\ Holds(probe.input, RemoveTag)
  /\ Holds(probe.once.b, probe.body) /\ probe.body # <<>>
  /\ probe.once.b # probe.input

\* C26 as stated: for every buffer, Parse of the output of Parse returns
\* that output.
C26_Idempotent == ParsedTwice => probe.twice = probe.once

\* C27: Writer.WriteHeader forwards every non-zero status unchanged to the
\* wrapped ResponseWriter, and forwards 200 for the status 0; 200 is never
\* forwarded for another non-zero status.
WriterCalls ==
  IF probe.fn = "WriteHeader" THEN {probe.calls[i] : i \in 1..Len(probe.calls)}
  ELSE {}
C27_StatusPreserved ==
  \A c \in WriterCalls :
    /\ c.statusCode # 0 => c.forwarded = c.statusCode
    /\ c.statusCode = 0 => c.forwarded = 200
    /\ c.forwarded = 200 => c.statusCode \in {0, 200}
C27_Witness ==
  /\ \E c \in WriterCalls : c.statusCode = 302 /\ c.forwarded = 302
  /\ \E c \in WriterCalls : c.statusCode = 0 /\ c.forwarded = 200
  /\ \E c \in WriterCalls : c.statusCode = 500 /\ c.forwarded = 500

\* C28: the starting loop starts one task per include and never waits for
\* a task; the buffer is not changed before every task has completed, and
\* every task reads its tag bytes from the unchanged buffer.
TasksRun == probe.fn = "fetchIncludesParallel"
C28_JoinBeforeSplice ==
  TasksRun =>
    /\ probe.stage = "spawn" /\ probe.spawned < Len(probe.includes)
         => ENABLED TaskSpawn
    /\ probe.stage = "spliced" \/ probe.b # probe.input
         => /\ probe.spawned = Len(probe.includes)
            /\ \A i \in DOMAIN probe.task : probe.task[i] = "done"
    /\ \A i \in DOMAIN probe.task :
         probe.task[i] \in {"read", "done"}
           => probe.tagBytes[i] = TagBytes(probe.input, probe.includes[i])
C28_Witness ==
  /\ TasksRun /\ probe.stage = "spliced" /\ probe.b # probe.input
  /\ Len(probe.includes) >= 2 /\ probe.peak = Len(probe.includes)

\* C29: an include inside an inline escape causes no fetch, and what lies
\* between the escape's delimiters is in Parse's output as it was.
InEscape(B, i) ==
  \E e \in 0..i :
    /\ Occurs(B, EscOpen, e)
    /\ FindLit(From(B, e), EscClose) + e > i
AllEscaped(B) ==
  /\ Holds(B, EscOpen)
  /\ \A i \in 0..Len(B) : Occurs(B, EsiOpen, i) => InEscape(B, i)
C29_EscapeDisablesParsing ==
  ParseOver /\ AllEscaped(probe.input)
    => /\ probe.stage = "done" /\ probe.fetched = {}
       /\ \A tag \in {IncludeU, RemoveTag} :
            Holds(probe.input, EscOpen \o tag \o EscClose) => Holds(probe.b, tag)

\* C30: no two changes of the cache's list or map run at the same time.
C30_MutationsExclusive ==
  probe.fn = "mu" => Cardinality(Mutating(probe.g)) <= 1

\* C31: the include sites collectIncludes produces lie inside the buffer,
\* are pairwise disjoint, and each covers one include's markup from its
\* <esi: opening to its own "/>".
OneInclude(tagBytes) ==
  /\ Occurs(tagBytes, EsiOpen \o IncludeName, 0)
  /\ \A i \in 1..Len(tagBytes) : ~Occurs(tagBytes, EsiOpen, i)
  /\ FindLit(tagBytes, closeInclude) + Len(closeInclude) = Len(tagBytes)
Collected == probe.fn = "Parse" /\ probe.stage # "collect"
C31_SitesDisjoint ==
  Collected
    => /\ \A i \in 1..Len(probe.includes) :
            LET inc == probe.includes[i]
            IN  /\ inc.position < inc.position + inc.length
                /\ inc.position + inc.length <= Len(probe.input)
                /\ OneInclude(TagBytes(probe.input, inc))
       /\ \A i, j \in 1..Len(probe.includes) :
            i < j => \/ probe.includes[i].position + probe.includes[i].length
                          <= probe.includes[j].position
                     \/ probe.includes[j].position + probe.includes[j].length
                          <= probe.includes[i].position

\* C32: the non-include pass replaces every recognized non-include tag that
\* is in the buffer, also one that follows an include left unexpanded.
C32_NoTagSkipped ==
  probe.fn = "Parse" /\ probe.stage = "done" /\ ~Holds(probe.input, EscOpen)
    => ~Holds(probe.b, RemoveTag)

\* C33: the winner deletes its in-flight record only after it has released
\* the latch; a winner whose fetch came back with status 200 and a TTL above
\* zero stores the entry while its record is still in the table; and a call
\* that starts while the key has a live entry returns the hit and takes no
\* part in a fetch.
Deletes(c) == pc[c] = "del" /\ pc'[c] # "del"
Stores(c) == pc[c] = "put" /\ pc'[c] # "put"
Fetched(c) == pc[c] = "fetch" /\ pc'[c] # "fetch"
Starts(c) == pc[c] = "idle" /\ pc'[c] # "idle"
C33_DeleteAfterStore ==
  [][\A c \in Procs :
       /\ Deletes(c)
            => /\ recs[req[c]].done = 1 /\ recs[req[c]].wg = 0
               /\ ckey[c] \in DOMAIN inFlight /\ ckey[c] \notin DOMAIN inFlight'
       /\ Fetched(c) /\ ~FetchFailed(fres'[c]) => pc'[c] = "put"
       /\ Stores(c) /\ parseTTL(fres[c].resp) > 0
            => /\ ckey[c] \in DOMAIN entries'
               /\ entries'[ckey[c]].data = fres[c].data
               /\ ckey[c] \in DOMAIN inFlight' /\ inFlight'[ckey[c]] = req[c]
               /\ pc'[c] = "wgdone"
       /\ \A k \in Keys :
            Starts(c) /\ GetHit(k) /\ (ckey'[c] = k \/ pc'[c] = "ret")
              => /\ pc'[c] = "ret" /\ out'[c].how = "hit"
                 /\ (out'[c].result = entries[k].data \/ ckey'[c] # k)
                 /\ UNCHANGED <<inFlight, recs>>
    ]_vars
C33_Witness ==
  \E c, d \in Procs :
    /\ c # d /\ inFlight = << >>
    /\ pc[d] = "ret" /\ out[d].how = "fetched" /\ out[d].status = 200
    /\ pc[c] = "ret" /\ out[c].how = "hit" /\ out[c].result = out[d].result

\* C34: every Parse call returns, also when a fragment includes its own
\* URL or a URL whose fragment includes it back.
ParseReturned ==
  \A f \in DOMAIN probe.frames :
    probe.frames[f].parent = 0 => probe.frames[f].at = "done"
C34_ParseReturns == probe.fn = "nested" ~> ParseReturned

\* C35: every call that splices the cached fragment returns its own bytes
\* before the include, the fragment's bytes and its own bytes after it,
\* and the entry's data stays what was stored.
C35_SpliceOwnBytes ==
  probe.fn = "alias"
    => /\ \A c \in Procs :
            probe.g[c].at = "done"
              => probe.g[c].out
                   = SpliceOne(AliasDoc(c, probe.g[c].suffix), <<"a">>)
       /\ (SrcUrl \in DOMAIN entries => entries[SrcUrl].data = "a")

\* C36: when the primary request fails and the alt request returns 200, the
\* alt body is stored under the key of the src with the TTL of the alt
\* response, and while that entry has not expired an include of the src is
\* replaced by the alt body from the cache without any request.
AltResp == [cc |-> probe.a.cc, status |-> probe.a.status]
Shared(c) == pc[c] = "ret" /\ out[c].how \in {"hit", "waited"}
C37_SharedBytesForAll ==
  \A c \in Procs :
    Shared(c)
      => /\ out[c].note
         /\ out[c].how = "hit" => out[c].result \in {Personal(d) : d \in Procs}

\* C38: what the channels are sent, in index order, is the input with
\* every complete tag replaced by its Process output: every byte outside a
\* tag once and in order (a tag still open at the end of the input is held
\* back).
RECURSIVE Replaced(_)
Replaced(input) ==
  LET open == FindLit(input, EsiOpen)
      close == FindLit(From(input, open), closeInclude)
  IN  IF open = 0 - 1 THEN input
      ELSE IF close = 0 - 1 THEN Slice(input, 0, open)
      ELSE Slice(input, 0, open) \o <<"T">>
             \o Replaced(From(input, open + close + Len(closeInclude)))
RECURSIVE Sent(_)
Sent(chans) ==
  IF chans = <<>> THEN <<>>
  ELSE (IF Head(chans).kind = "text" THEN Head(chans).val
        ELSE IF Head(chans).kind = "tag" THEN <<"T">> ELSE <<>>)
         \o Sent(Tail(chans))
C38_EveryByteOnce ==
  probe.fn = "stream" => Sent(probe.chans) = Replaced(probe.input)

\* C39: once the handler has written and the nil is sent on a new channel,
\* the reader takes every channel in order and then the nil and ends, and
\* no Write waits forever for the reader.
C39_ProtocolTerminates ==
  /\ probe.writer = "sentinel"
       ~> /\ probe.writer = "end" /\ probe.reader = "done"
          /\ probe.i + 1 = Len(probe.chans)
  /\ probe.writer = "plain" ~> probe.writer = "idle"
====
